---- MODULE Spec2Model ----
(***************************************************************************)
(* A model of the FinanceMaker session machinery:                          *)
(*   - EarningStrategy / RealTimeTradingBase (candle building, one order   *)
(*     per ticker),                                                        *)
(*   - StrategyRunner and TradingScheduler (day loop, bounded retry),      *)
(*   - YahooRealtimeProvider / RealtimeProviderBase (fan-out, reconnect).  *)
(* Each subsystem has its own specification; the variables of the other    *)
(* subsystems stay unchanged under it.                                     *)
(* Prices and buying power are integers in cents.                          *)
(***************************************************************************)
EXTENDS Integers, Sequences, FiniteSets, TLC

\* ------------------------------------------------------------------ bounds
\* tick timestamps are drawn from 0..MaxTickTime (seconds)
MaxTickTime == 2
\* at most MaxTicks ticks are delivered to the strategy in one behaviour
MaxTicks == 3

\* max_retries is drawn from 0..MaxRetriesCfg
MaxRetriesCfg == 2
\* at most MaxCrashes liveness-flag drops in one behaviour
MaxCrashes == 2
\* a day has DayLen seconds; on a session day the pre-market opens at
\* PreOpenAt, the market closes at CloseAt and the after-hours session closes
\* at PostCloseAt (seconds after midnight)
DayLen == 66
PreOpenAt == 62
CloseAt == 63
PostCloseAt == 64

\* max_reconnect_attempts is drawn from 0..MaxAttemptsCfg
MaxAttemptsCfg == 2
\* at most MaxConns connections are opened, MaxDrops of them are dropped by
\* the peer, MaxCalls calls are made on the provider and MaxFeeds messages
\* arrive in one behaviour
MaxConns == 3
MaxDrops == 1
MaxCalls == 3
MaxFeeds == 1
MaxProduced == 3
MaxCandleTicks == 4
OrderCalls == 1
\* the cache holds files for the days 0..MaxCacheDay; scan_passes is drawn
\* from 1..MaxPasses
MaxCacheDay == 1
MaxPasses == 2
\* an advisor's response has at most MaxResponseLen tokens
MaxResponseLen == 3
\* at most MaxTasks reader tasks are made and MaxCandles candles are closed
\* in one behaviour
MaxTasks == 2
MaxCandles == 2
\* the market-hours integer of a payload is drawn from 0..MaxPhase
MaxPhase == 5

\* ------------------------------------------------------------------ values
Symbols == {"AAPL", "MSFT"}
\* ids as they come in from callers and from the feed, before upper-casing
RawIds == {"AAPL", "aapl", "MSFT"}
Prices == {100, 10000}
BuyingPowers == {5000}
\* the strategy's tick inlet (bound method on_tick) and a second sink
StratSink == "on_tick"
Sinks == {"on_tick", "other"}

\* str.upper()
Upper(id) == IF id = "aapl" THEN "AAPL" ELSE id

\* RealTimeTradingBase.CANDLE_TICKS
CANDLE_TICKS == 1
\* EarningStrategy MIN_QUANTITY
MinQuantityZero == 0
MIN_QUANTITY == 1
\* ENTRY_OFFSET_PCT, STOP_LOSS_PCT, TAKE_PROFIT_PCT in percent
ENTRY_OFFSET_PCT == 1
STOP_LOSS_PCT == 4
TAKE_PROFIT_PCT == 8

VARIABLES
    \* ---- RealtimeProviderBase
    subscriptions,          \* dict ticker -> set of sinks
    \* ---- RealTimeTradingBase / EarningStrategy
    tickers,                \* self._tickers, as a set
    is_initialized,         \* self._is_initialized
    building_candles,       \* dict ticker -> candle state
    orders_placed,          \* self._orders_placed
    warmup_complete,        \* self._warmup_complete
    bp_per_ticker,          \* self._buying_power_per_ticker as num/den (cents)
    clockWarm,              \* environment: NY time of day >= MARKET_WARMUP_TIME
    tpc,                    \* position of the on_tick call in flight
    inflight,               \* the on_tick call suspended in place_order
    \* ---- observation of the strategy
    sessionOrders,          \* successful place_order calls per ticker, this session
    lastOutcome,            \* how the latest on_tick call went so far
    raisedFor,              \* tickers whose place_order raised, this session
    ticksSeen,
    \* ---- TradingScheduler
    now,                    \* MarketCalendar.now(), seconds
    is_running,             \* self._is_running
    should_stop,            \* self._should_stop
    mpc,                    \* position of the task running start()
    pre_market,             \* _run_trading_day: pre_market
    after_hours,            \* _run_trading_day: after_hours
    wake_at,                \* when the sleep of start()'s task ends
    spc,                    \* position of the task running stop()
    \* ---- StrategyRunner
    max_retries,            \* self._max_retries
    active,                 \* self._active, a list
    failures,               \* self._failures, a dict
    m_idx,                  \* start()'s task: idx of the strategy at hand
    m_attempt,              \* start()'s task: attempt in _start_strategy
    m_caller,               \* start()'s task: who called _start_strategy
    miter,                  \* start()'s task: list iterator of stop_all
    siter,                  \* stop()'s task: list iterator of stop_all
    s_target,               \* stop()'s task: the strategy being shut down
    \* ---- the managed strategies (ITradingStrategy)
    strat_initialized,      \* is_initialized of each strategy
    crashes,                \* liveness-flag drops so far
    \* ---- observation of the runner and the scheduler
    g_inits,                \* initialize calls since start_all began, up to the first success
    g_ok,                   \* an initialize call succeeded since start_all began
    g_down,                 \* shutdown was called since start_all began
    g_drops,                \* flag drops health_check handled since start_all began
    lastEvent,              \* the latest step of the day cycle
    startAfterStop,         \* a start_all call began after stop() was requested
    stopAllAfterStop,       \* a stop_all call began after stop() was requested
    \* ---- YahooRealtimeProvider
    is_connected,           \* self._is_connected
    websocket,              \* self._websocket: a connection id, 0 for None
    listener_task,          \* self._listener_task is "none" or "set"
    lpc,                    \* position of the task running _listen
    l_conn,                 \* the connection the reader iterates or sends on
    l_cancel,               \* cancel() was called on the running reader task
    reconnect_count,        \* self._reconnect_count
    should_reconnect,       \* self._should_reconnect
    max_reconnect_attempts, \* self._max_reconnect_attempts
    cpc,                    \* position of the subscribe/unsubscribe/disconnect call in flight
    c_tickers,              \* the caller's new_tickers
    c_conn,                 \* the connection the caller closes
    \* ---- the feed
    conn_open,              \* the connections that are open
    frames,                 \* the frames sent on each connection
    nextConn,               \* connections opened so far
    drops,
    calls,
    feeds,
    \* ---- observation of the provider
    l_from,                 \* how the reader came to the while test of _listen
    errorsLogged,           \* "Max reconnection attempts reached" log lines
    idleSpins,              \* _receive_messages returned at once (no connection)
    attemptFailed,          \* the reader's latest reconnect attempt raised
    lastWait,               \* the delay slept before the latest attempt
    everClosed,             \* a disconnect() call has returned
    closedNow,              \* ... and no call was made since
    deliveredAfterClose,    \* a sink was invoked after disconnect() returned
    lastDelivery,           \* the latest tick handed to sinks
    \* ---- the messages of the feed, one by one
    wire,                   \* the messages that arrived on each connection, unread
    produced,               \* messages the source has sent so far
    sinkLog,                \* the numbered messages each sink was called with
    \* ---- the extent of a run
    tickCap,                \* the ticks the feed delivers to the strategy at most
    n_strategies,           \* len(self._strategies)
    \* ---- observation of stop_all
    m_called,               \* the strategies active when start()'s task called stop_all
    s_called,               \* the strategies active when stop()'s task called stop_all
    \* ---- FileTickerCache
    cache_enabled,          \* CacheConfig.enabled
    files,                  \* the files of the cache directory: stem -> text
    c_today,                \* date.today()
    cacheEvent,             \* the last call on the cache or the selection
    \* ---- EarningTomorrowAI
    scanEvent,              \* the last extraction or scan: its inputs and results
    readers,                \* the reader tasks made so far and their on_candle calls
    decoded                 \* the last message read: its payload, the tick and the reader after it

stratVars == <<tickers, is_initialized, building_candles, orders_placed,
               warmup_complete, bp_per_ticker, clockWarm, tpc, inflight,
               sessionOrders, lastOutcome, raisedFor, ticksSeen>>

schedVars == <<now, is_running, should_stop, mpc, pre_market, after_hours,
               wake_at, spc, max_retries, active, failures, m_idx, m_attempt,
               m_caller, miter, siter, s_target, strat_initialized, crashes, g_inits,
               g_ok, g_down, g_drops, lastEvent, startAfterStop,
               stopAllAfterStop, m_called, s_called>>

fanVars == <<is_connected, websocket, listener_task, lpc, l_conn, l_cancel,
             reconnect_count, should_reconnect, max_reconnect_attempts, cpc,
             c_tickers, c_conn, conn_open, frames, nextConn, drops, calls,
             feeds, l_from, errorsLogged, idleSpins, attemptFailed,
             lastWait, everClosed, closedNow,
             deliveredAfterClose, lastDelivery>>

wireVars == <<wire, produced, sinkLog>>

extent == <<tickCap, n_strategies>>

cacheVars == <<cache_enabled, files, c_today, cacheEvent>>

scanVars == <<scanEvent, readers, decoded>>

vars == <<subscriptions, stratVars, schedVars, fanVars, wireVars, extent, cacheVars,
          scanVars>>

\* what the actions of one subsystem leave alone
outsideStrategy == <<schedVars, fanVars, wireVars, extent, cacheVars, scanVars>>
outsideSched == <<subscriptions, stratVars, fanVars, wireVars, extent, cacheVars,
                 scanVars>>
outsideProvider == <<stratVars, schedVars, extent, cacheVars, scanVars>>
outsideFanout == <<outsideProvider, wireVars>>
outsideCache == <<subscriptions, stratVars, schedVars, fanVars, wireVars, extent,
                 scanVars>>
outsideScan == <<subscriptions, stratVars, schedVars, fanVars, wireVars, extent,
                cacheVars>>

\* ------------------------------------------------------------------ helpers
Max(a, b) == IF a >= b THEN a ELSE b
Min(a, b) == IF a <= b THEN a ELSE b

\* round(n / d) to the nearest integer, ties to even (Python round())
RoundDiv(n, d) ==
    LET q == n \div d
        r == n % d
    IN  IF 2 * r < d THEN q
        ELSE IF 2 * r > d THEN q + 1
        ELSE IF q % 2 = 0 THEN q ELSE q + 1

NoFlight == [ticker |-> "", data |-> [id |-> "", price |-> 0, time |-> 0, last_size |-> 0],
             quantity |-> 0, limit_price |-> 0, stop_loss_price |-> 0,
             take_profit_price |-> 0]

\* ------------------------------------------------- RealtimeProviderBase registry
\* subscribe, were it to announce every listed ticker
NewTickersAll(subs, ids) == {Upper(i) : i \in ids}

\* subscribe: the tickers that had no entry before the call
NewTickers(subs, ids) == {Upper(i) : i \in ids} \ DOMAIN subs

\* subscribe: the registry after the locked section
RegistryAfterSubscribe(subs, ids, sink) ==
    LET ups == {Upper(i) : i \in ids}
    IN  [t \in DOMAIN subs \cup ups |->
            IF t \in ups
            THEN (IF t \in DOMAIN subs THEN subs[t] ELSE {}) \cup {sink}
            ELSE subs[t]]

\* unsubscribe, were it to announce every listed ticker
RemovedTickersAll(subs, ids) == {Upper(i) : i \in ids}

\* unsubscribe: the tickers whose entry is deleted
RemovedTickers(subs, ids) == {Upper(i) : i \in ids} \cap DOMAIN subs

\* unsubscribe: the registry after the locked section
RegistryAfterUnsubscribe(subs, ids) ==
    [t \in DOMAIN subs \ {Upper(i) : i \in ids} |-> subs[t]]

\* ------------------------------------------------- RealTimeTradingBase candles
CreateCandleState(data) ==
    [open |-> data.price, high |-> data.price, low |-> data.price,
     close |-> data.price, volume |-> data.last_size, start_time |-> data.time]

\* _update_candle_state, were it to leave the high alone
UpdateCandleStateNoHigh(state, data) ==
    [state EXCEPT !.low = Min(state.low, data.price),
                  !.close = data.price,
                  !.volume = state.volume + data.last_size]

UpdateCandleState(state, data) ==
    [state EXCEPT !.high = Max(state.high, data.price),
                  !.low = Min(state.low, data.price),
                  !.close = data.price,
                  !.volume = state.volume + data.last_size]

FinalizeCandle(state) ==
    [open |-> state.open, high |-> state.high, low |-> state.low,
     close |-> state.close, volume |-> state.volume, time |-> state.start_time]

SetCandle(bc, ticker, state) ==
    [t \in DOMAIN bc \cup {ticker} |-> IF t = ticker THEN state ELSE bc[t]]

\* ------------------------------------------------- EarningStrategy prices
\* the entry, were it the candle low itself
EntryPriceAtLow(low) == low

EntryPrice(low) == RoundDiv(low * (100 - ENTRY_OFFSET_PCT), 100)
StopLossPrice(entry) == RoundDiv(entry * (100 - STOP_LOSS_PCT), 100)
TakeProfitPrice(entry) == RoundDiv(entry * (100 + TAKE_PROFIT_PCT), 100)

\* _calculate_quantity
CalculateQuantity(entry_price) ==
    IF entry_price <= 0 THEN 0
    ELSE bp_per_ticker.num \div (bp_per_ticker.den * entry_price)

\* _is_warmup_complete: the value returned (the flag is set to it)
IsWarmupComplete == warmup_complete \/ clockWarm

EmptyMap == [t \in {} |-> 0]

\* ------------------------------------------------- EarningStrategy.on_candle
\* mutant: the duplicate check is missing
AlreadyOrderedNever(ticker) == FALSE

\* the duplicate check: only the first candle of a ticker is traded
AlreadyOrdered(ticker) == ticker \in orders_placed

\* the set after place_order has returned a response
TagAfterOrder(placed, ticker) == placed \cup {ticker}

\* mutant: the ticker is tagged whether or not place_order succeeded
OrdersAfterFailureTagged(placed, ticker) == placed \cup {ticker}

\* the set after place_order has raised: the exception leaves on_candle
OrdersAfterFailure(placed, ticker) == placed

\* on_candle returned without an order; on_tick then starts the next candle
CandleReturn(ticker, data, why) ==
    /\ lastOutcome' = why
    /\ building_candles' = SetCandle(building_candles, ticker, CreateCandleState(data))
    /\ UNCHANGED <<tpc, inflight>>

\* on_candle up to its first suspension, called from on_tick with the tick
\* that closed the candle
OnCandle(ticker, candle, data) ==
    /\ warmup_complete' = IsWarmupComplete
    /\ IF ~IsWarmupComplete
       THEN CandleReturn(ticker, data, "warmup")
       ELSE IF AlreadyOrdered(ticker)
       THEN CandleReturn(ticker, data, "duplicate")
       ELSE LET entry_price == EntryPrice(candle.low)
                quantity == CalculateQuantity(entry_price)
            IN  IF quantity < MIN_QUANTITY
                THEN CandleReturn(ticker, data, "quantity")
                ELSE /\ tpc' = "placing"
                     /\ lastOutcome' = "placing"
                     /\ inflight' = [ticker |-> ticker, data |-> data,
                                     quantity |-> quantity,
                                     limit_price |-> entry_price,
                                     stop_loss_price |-> StopLossPrice(entry_price),
                                     take_profit_price |-> TakeProfitPrice(entry_price)]
                     /\ UNCHANGED building_candles

\* RealTimeTradingBase.on_tick, called by the provider's reader for one tick;
\* the reader awaits the call, so one call is in flight at a time
OnTick(data) ==
    LET ticker == Upper(data.id) IN
    /\ tpc = "idle"
    /\ ticksSeen < tickCap
    /\ ticker \in DOMAIN subscriptions
    /\ StratSink \in subscriptions[ticker]
    /\ ticksSeen' = ticksSeen + 1
    /\ IF ticker \notin DOMAIN building_candles
       THEN /\ building_candles' =
                   SetCandle(building_candles, ticker, CreateCandleState(data))
            /\ lastOutcome' = "seed"
            /\ UNCHANGED <<warmup_complete, tpc, inflight>>
       ELSE LET state == building_candles[ticker] IN
            IF data.time - state.start_time >= CANDLE_TICKS
            THEN OnCandle(ticker, FinalizeCandle(state), data)
            ELSE /\ building_candles' =
                        SetCandle(building_candles, ticker, UpdateCandleState(state, data))
                 /\ lastOutcome' = "update"
                 /\ UNCHANGED <<warmup_complete, tpc, inflight>>
    /\ UNCHANGED <<subscriptions, tickers, is_initialized, orders_placed,
                   bp_per_ticker, clockWarm, sessionOrders, raisedFor>>
    /\ UNCHANGED outsideStrategy

\* broker.place_order returns an OrderResponse (status SUBMITTED), on_candle
\* tags the ticker and returns, on_tick starts the next candle
PlaceOrderReturns ==
    /\ tpc = "placing"
    /\ orders_placed' = TagAfterOrder(orders_placed, inflight.ticker)
    /\ sessionOrders' = [sessionOrders EXCEPT ![inflight.ticker] = @ + 1]
    /\ building_candles' =
           SetCandle(building_candles, inflight.ticker, CreateCandleState(inflight.data))
    /\ lastOutcome' = "placed"
    /\ tpc' = "idle"
    /\ inflight' = NoFlight
    /\ UNCHANGED <<subscriptions, tickers, is_initialized, warmup_complete,
                   bp_per_ticker, clockWarm, raisedFor, ticksSeen>>
    /\ UNCHANGED outsideStrategy

\* broker.place_order raises (ValueError, ConnectionError): the exception
\* leaves on_candle and on_tick, the candle state is not restarted
PlaceOrderRaises ==
    /\ tpc = "placing"
    /\ orders_placed' = OrdersAfterFailure(orders_placed, inflight.ticker)
    /\ lastOutcome' = "raised"
    /\ raisedFor' = raisedFor \cup {inflight.ticker}
    /\ tpc' = "idle"
    /\ inflight' = NoFlight
    /\ UNCHANGED <<subscriptions, tickers, is_initialized, building_candles,
                   warmup_complete, bp_per_ticker, clockWarm, sessionOrders,
                   ticksSeen>>
    /\ UNCHANGED outsideStrategy

\* ------------------------------------------------- initialize / shutdown
\* RealTimeTradingBase.initialize with EarningStrategy.load_tickers, called by
\* the runner at session start and again on a restart. scan is the combined
\* scanner result, bp the broker's buying power, outcome where it ends.
StratInitialize(scan, bp, outcome) ==
    /\ CASE outcome = "load_fail" ->
              \* the scanner or get_buying_power raises
              UNCHANGED <<subscriptions, tickers, is_initialized, bp_per_ticker>>
         [] outcome = "subscribe_fail" ->
              \* the registry is updated, then sending the frame raises
              /\ NewTickers(subscriptions, scan) # {}
              /\ bp_per_ticker' = [num |-> bp, den |-> Cardinality(scan)]
              /\ tickers' = scan
              /\ subscriptions' = RegistryAfterSubscribe(subscriptions, scan, StratSink)
              /\ UNCHANGED is_initialized
         [] outcome = "ok" ->
              /\ bp_per_ticker' = IF scan # {}
                                  THEN [num |-> bp, den |-> Cardinality(scan)]
                                  ELSE bp_per_ticker
              /\ tickers' = scan
              /\ subscriptions' = IF scan # {}
                                  THEN RegistryAfterSubscribe(subscriptions, scan, StratSink)
                                  ELSE subscriptions
              /\ is_initialized' = TRUE
    /\ UNCHANGED <<building_candles, orders_placed, warmup_complete, clockWarm,
                   tpc, inflight, sessionOrders, lastOutcome, raisedFor, ticksSeen>>
    /\ UNCHANGED outsideStrategy

\* RealTimeTradingBase.shutdown; the session ends when it returns
StratShutdown(outcome) ==
    /\ CASE outcome = "unsub_fail" ->
              \* the registry is updated, then sending the frame raises
              /\ RemovedTickers(subscriptions, tickers) # {}
              /\ subscriptions' = RegistryAfterUnsubscribe(subscriptions, tickers)
              /\ UNCHANGED <<tickers, is_initialized, sessionOrders, raisedFor>>
         [] outcome = "ok" ->
              /\ subscriptions' = RegistryAfterUnsubscribe(subscriptions, tickers)
              /\ tickers' = {}
              /\ is_initialized' = FALSE
              /\ sessionOrders' = [s \in Symbols |-> 0]
              /\ raisedFor' = {}
    /\ UNCHANGED <<building_candles, orders_placed, warmup_complete,
                   bp_per_ticker, clockWarm, tpc, inflight, lastOutcome,
                   ticksSeen>>
    /\ UNCHANGED outsideStrategy

\* the wall clock passes MARKET_WARMUP_TIME, or midnight
ClockTurns ==
    /\ clockWarm' = ~clockWarm
    /\ UNCHANGED <<subscriptions, tickers, is_initialized, building_candles,
                   orders_placed, warmup_complete, bp_per_ticker, tpc, inflight,
                   sessionOrders, lastOutcome, raisedFor, ticksSeen>>
    /\ UNCHANGED outsideStrategy

\* =================================================================== scheduler
\* ------------------------------------------------------------ MarketCalendar
\* the days the clock runs over; day 0 is a holiday, day 1 a session
Days == {0, 1}
Holidays == {0}
IsSession(d) == d \notin Holidays
DayOf(t) == t \div DayLen
TimeOfDay(t) == t % DayLen

\* calendar.next_open(midnight of day d): the day of the first open after it
RECURSIVE NextOpenDay(_)
NextOpenDay(d) == IF IsSession(d) \/ d \notin Days THEN d ELSE NextOpenDay(d + 1)

\* get_next_trading_day(after): the day whose open is returned
NextTradingDay(after) ==
    IF IsSession(DayOf(after)) /\ TimeOfDay(after) < CloseAt
    THEN DayOf(after)
    ELSE NextOpenDay(DayOf(after))

GetPreMarketOpen(day) == day * DayLen + PreOpenAt
GetAfterHoursClose(day) == day * DayLen + PostCloseAt

\* ------------------------------------------------------------ task positions
\* positions at which a task is suspended in an await
MainSuspended == {"wait_sleep", "init", "retry_sleep", "serve_sleep", "shutdown"}
\* positions after which start()'s task never runs again
MainEnded == {"terminal"}
MainRunning == mpc \notin (MainSuspended \cup MainEnded)
StopRunning == spc = "s_next"
\* the event loop is free to resume a task or to start one
Quiet == ~MainRunning /\ ~StopRunning

\* self._strategies, by position
Strategies == 1..n_strategies
\* the elements of a list
ListSet(l) == {l[i] : i \in 1..Len(l)}
NoIter == [alias |-> FALSE, snap |-> <<>>, idx |-> 0]
\* a fresh iterator over the list object self._active
IterOverActive == [alias |-> TRUE, snap |-> <<>>, idx |-> 0]
\* the list an iterator walks: self._active while it is still that object
IterList(it) == IF it.alias THEN active ELSE it.snap
\* self._active is rebound to a new list: an iterator keeps the old object
KeepOldList(it) == IF it.alias THEN [alias |-> FALSE, snap |-> active, idx |-> it.idx] ELSE it

InList(x, l) == \E i \in 1..Len(l) : l[i] = x
\* list.remove(x): drop the first occurrence
RECURSIVE ListRemove(_, _)
ListRemove(l, x) ==
    IF l = <<>> THEN <<>>
    ELSE IF Head(l) = x THEN Tail(l)
    ELSE <<Head(l)>> \o ListRemove(Tail(l), x)

\* dict.get(idx, 0)
FailuresGet(idx) == IF idx \in DOMAIN failures THEN failures[idx] ELSE 0
DictSet(dict, k, v) == [x \in DOMAIN dict \cup {k} |-> IF x = k THEN v ELSE dict[x]]

\* _wait_until: the length of the next sleep
LongSleep == 60
ShortSleep == 1
WaitSliceLong(remaining) == LongSleep
WaitSlice(remaining) ==
    IF remaining > LongSleep THEN LongSleep ELSE Min(remaining, ShortSleep)

\* _wait_until: remaining <= 0
WaitOverAlways(remaining) == TRUE
WaitOver(remaining) == remaining <= 0

\* _run_trading_day: if self._should_stop after _wait_until
StopSeenNever == FALSE
StopSeenAfterWait == should_stop

\* _start_strategy: range(self._max_retries) still has an attempt
MoreAttemptsOneMore(attempt) == attempt < max_retries + 1
MoreAttempts(attempt) == attempt < max_retries

\* _handle_crash: failures < self._max_retries
MayRestart(f) == f < max_retries

runnerGhost == <<g_inits, g_ok, g_down, g_drops>>
schedGhost == <<lastEvent, startAfterStop, stopAllAfterStop>>

\* ------------------------------------------------------------ start()'s task
\* start(): the while test fails
LoopExit ==
    /\ mpc = "loop"
    /\ should_stop
    /\ is_running' = FALSE
    /\ mpc' = "terminal"
    /\ UNCHANGED <<now, should_stop, pre_market, after_hours, wake_at, spc,
                   max_retries, active, failures, m_idx, m_attempt, m_caller,
                   miter, siter, s_target, strat_initialized, crashes, runnerGhost, schedGhost>>
    /\ UNCHANGED <<m_called, s_called>>
    /\ UNCHANGED outsideSched

\* start(): the while test holds; _run_trading_day up to _wait_until
BeginDay ==
    /\ mpc = "loop"
    /\ ~should_stop
    /\ NextTradingDay(now) \in Days
    /\ pre_market' = GetPreMarketOpen(NextTradingDay(now))
    /\ after_hours' = GetAfterHoursClose(NextTradingDay(now))
    /\ mpc' = "wait"
    /\ lastEvent' = "wait"
    /\ UNCHANGED <<now, is_running, should_stop, wake_at, spc, max_retries,
                   active, failures, m_idx, m_attempt, m_caller, miter, siter,
                   s_target, strat_initialized, crashes, runnerGhost, startAfterStop,
                   stopAllAfterStop>>
    /\ UNCHANGED <<m_called, s_called>>
    /\ UNCHANGED outsideSched

\* _wait_until: one pass of the loop, up to the sleep or the return
WaitUntil ==
    /\ mpc = "wait"
    /\ IF should_stop \/ WaitOver(pre_market - now)
       THEN /\ mpc' = "after_wait"
            /\ UNCHANGED wake_at
       ELSE /\ wake_at' = now + WaitSlice(pre_market - now)
            /\ mpc' = "wait_sleep"
    /\ UNCHANGED <<now, is_running, should_stop, pre_market, after_hours, spc,
                   max_retries, active, failures, m_idx, m_attempt, m_caller,
                   miter, siter, s_target, strat_initialized, crashes, runnerGhost, schedGhost>>
    /\ UNCHANGED <<m_called, s_called>>
    /\ UNCHANGED outsideSched

\* asyncio.sleep in _wait_until ends
WaitWake ==
    /\ mpc = "wait_sleep"
    /\ Quiet
    /\ now' = Max(now, wake_at)
    /\ mpc' = "wait"
    /\ UNCHANGED <<is_running, should_stop, pre_market, after_hours, wake_at, spc,
                   max_retries, active, failures, m_idx, m_attempt, m_caller,
                   miter, siter, s_target, strat_initialized, crashes, runnerGhost, schedGhost>>
    /\ UNCHANGED <<m_called, s_called>>
    /\ UNCHANGED outsideSched

\* _run_trading_day after _wait_until: return, or enter start_all
AfterWait ==
    /\ mpc = "after_wait"
    /\ IF StopSeenAfterWait
       THEN /\ mpc' = "loop"
            /\ UNCHANGED <<active, failures, m_idx, siter, runnerGhost, schedGhost>>
       ELSE /\ active' = <<>>
            /\ siter' = KeepOldList(siter)
            /\ failures' = [x \in {} |-> 0]
            /\ m_idx' = 1
            /\ mpc' = "start_next"
            /\ g_inits' = [s \in Strategies |-> 0]
            /\ g_ok' = [s \in Strategies |-> FALSE]
            /\ g_down' = [s \in Strategies |-> FALSE]
            /\ g_drops' = [s \in Strategies |-> 0]
            /\ lastEvent' = "start_all"
            /\ startAfterStop' = (startAfterStop \/ should_stop)
            /\ UNCHANGED stopAllAfterStop
    /\ UNCHANGED <<now, is_running, should_stop, pre_market, after_hours, wake_at,
                   spc, max_retries, m_attempt, m_caller, miter,
                   s_target, strat_initialized, crashes>>
    /\ UNCHANGED <<m_called, s_called>>
    /\ UNCHANGED outsideSched

\* start_all: the for loop takes the next strategy, or ends
StartNext ==
    /\ mpc = "start_next"
    /\ IF m_idx \in Strategies
       THEN /\ m_attempt' = 0
            /\ m_caller' = "start_all"
            /\ mpc' = "try_init"
            /\ UNCHANGED lastEvent
       ELSE /\ mpc' = "serve"
            /\ lastEvent' = "start_done"
            /\ UNCHANGED <<m_attempt, m_caller>>
    /\ UNCHANGED <<now, is_running, should_stop, pre_market, after_hours, wake_at,
                   spc, max_retries, active, failures, m_idx, miter, siter,
                   s_target, strat_initialized, crashes, runnerGhost, startAfterStop,
                   stopAllAfterStop>>
    /\ UNCHANGED <<m_called, s_called>>
    /\ UNCHANGED outsideSched

\* where _start_strategy returns to
ReturnTo(caller) == IF caller = "start_all" THEN "start_next" ELSE "health_next"

\* _start_strategy: the for loop calls initialize, or gives the strategy up
TryInit ==
    /\ mpc = "try_init"
    /\ IF MoreAttempts(m_attempt)
       THEN /\ mpc' = "init"
            /\ g_inits' = [g_inits EXCEPT ![m_idx] = IF g_ok[m_idx] THEN @ ELSE @ + 1]
            /\ UNCHANGED m_idx
       ELSE /\ mpc' = ReturnTo(m_caller)
            /\ m_idx' = m_idx + 1
            /\ UNCHANGED g_inits
    /\ UNCHANGED <<now, is_running, should_stop, pre_market, after_hours, wake_at,
                   spc, max_retries, active, failures, m_attempt, m_caller, miter,
                   siter, s_target, strat_initialized, crashes, g_ok, g_down, g_drops,
                   schedGhost>>
    /\ UNCHANGED <<m_called, s_called>>
    /\ UNCHANGED outsideSched

\* strategy.initialize() returns
InitializeReturns ==
    /\ mpc = "init"
    /\ Quiet
    /\ strat_initialized' = [strat_initialized EXCEPT ![m_idx] = TRUE]
    /\ active' = Append(active, m_idx)
    /\ failures' = DictSet(failures, m_idx, 0)
    /\ g_ok' = [g_ok EXCEPT ![m_idx] = TRUE]
    /\ mpc' = ReturnTo(m_caller)
    /\ m_idx' = m_idx + 1
    /\ UNCHANGED <<now, is_running, should_stop, pre_market, after_hours, wake_at,
                   spc, max_retries, m_attempt, m_caller, miter, siter, s_target, crashes,
                   g_inits, g_down, g_drops, schedGhost>>
    /\ UNCHANGED <<m_called, s_called>>
    /\ UNCHANGED outsideSched

\* strategy.initialize() raises
InitializeRaises ==
    /\ mpc = "init"
    /\ Quiet
    /\ IF m_attempt < max_retries - 1
       THEN /\ mpc' = "retry_sleep"
            /\ UNCHANGED m_attempt
       ELSE /\ mpc' = "try_init"
            /\ m_attempt' = m_attempt + 1
    /\ UNCHANGED <<now, is_running, should_stop, pre_market, after_hours, wake_at,
                   spc, max_retries, active, failures, m_idx, m_caller, miter,
                   siter, s_target, strat_initialized, crashes, runnerGhost, schedGhost>>
    /\ UNCHANGED <<m_called, s_called>>
    /\ UNCHANGED outsideSched

\* asyncio.sleep(retry_delay) in _start_strategy ends
RetryWake ==
    /\ mpc = "retry_sleep"
    /\ Quiet
    /\ m_attempt' = m_attempt + 1
    /\ mpc' = "try_init"
    /\ UNCHANGED <<now, is_running, should_stop, pre_market, after_hours, wake_at,
                   spc, max_retries, active, failures, m_idx, m_caller, miter,
                   siter, s_target, strat_initialized, crashes, runnerGhost, schedGhost>>
    /\ UNCHANGED <<m_called, s_called>>
    /\ UNCHANGED outsideSched

\* _run_until: the while test; health_check begins, or stop_all begins
RunUntil ==
    /\ mpc = "serve"
    /\ IF ~should_stop /\ now < after_hours
       THEN /\ m_idx' = 1
            /\ mpc' = "health_next"
            /\ lastEvent' = "health_check"
            /\ UNCHANGED <<miter, stopAllAfterStop, m_called>>
       ELSE /\ miter' = IterOverActive
            /\ mpc' = "stop_next"
            /\ lastEvent' = "stop_all"
            /\ stopAllAfterStop' = (stopAllAfterStop \/ should_stop)
            /\ m_called' = ListSet(active)
            /\ UNCHANGED m_idx
    /\ UNCHANGED <<now, is_running, should_stop, pre_market, after_hours, wake_at,
                   spc, max_retries, active, failures, m_attempt, m_caller, siter,
                   s_target, strat_initialized, crashes, runnerGhost, startAfterStop>>
    /\ UNCHANGED s_called
    /\ UNCHANGED outsideSched

\* health_check: the for loop body for one strategy, _handle_crash included,
\* or the end of the loop and the sleep of _run_until
HealthNext ==
    /\ mpc = "health_next"
    /\ IF m_idx \notin Strategies
       THEN /\ wake_at' = now + ShortSleep
            /\ mpc' = "serve_sleep"
            /\ UNCHANGED <<active, failures, m_idx, m_attempt, m_caller, g_drops>>
       ELSE IF ~InList(m_idx, active) \/ strat_initialized[m_idx]
       THEN /\ m_idx' = m_idx + 1
            /\ UNCHANGED <<active, failures, m_attempt, m_caller, g_drops, mpc, wake_at>>
       ELSE /\ failures' = DictSet(failures, m_idx, FailuresGet(m_idx) + 1)
            /\ active' = ListRemove(active, m_idx)
            /\ g_drops' = [g_drops EXCEPT ![m_idx] = @ + 1]
            /\ IF MayRestart(FailuresGet(m_idx) + 1)
               THEN /\ m_attempt' = 0
                    /\ m_caller' = "health_check"
                    /\ mpc' = "try_init"
                    /\ UNCHANGED m_idx
               ELSE /\ m_idx' = m_idx + 1
                    /\ UNCHANGED <<m_attempt, m_caller, mpc>>
            /\ UNCHANGED wake_at
    /\ UNCHANGED <<now, is_running, should_stop, pre_market, after_hours, spc,
                   max_retries, miter, siter, s_target, strat_initialized, crashes, g_inits,
                   g_ok, g_down, schedGhost>>
    /\ UNCHANGED <<m_called, s_called>>
    /\ UNCHANGED outsideSched

\* asyncio.sleep(1) in _run_until ends
ServeWake ==
    /\ mpc = "serve_sleep"
    /\ Quiet
    /\ now' = Max(now, wake_at)
    /\ mpc' = "serve"
    /\ UNCHANGED <<is_running, should_stop, pre_market, after_hours, wake_at, spc,
                   max_retries, active, failures, m_idx, m_attempt, m_caller,
                   miter, siter, s_target, strat_initialized, crashes, runnerGhost, schedGhost>>
    /\ UNCHANGED <<m_called, s_called>>
    /\ UNCHANGED outsideSched

\* stop_all in start()'s task: the for loop calls shutdown on the next
\* element, or ends and rebinds self._active
StopNext ==
    /\ mpc = "stop_next"
    /\ IF miter.idx < Len(IterList(miter))
       THEN /\ m_idx' = IterList(miter)[miter.idx + 1]
            /\ miter' = [miter EXCEPT !.idx = @ + 1]
            /\ g_down' = [g_down EXCEPT ![IterList(miter)[miter.idx + 1]] = TRUE]
            /\ mpc' = "shutdown"
            /\ UNCHANGED <<active, siter, lastEvent, m_called>>
       ELSE /\ active' = <<>>
            /\ siter' = KeepOldList(siter)
            /\ miter' = NoIter
            /\ mpc' = "sweep"
            /\ lastEvent' = "stop_done"
            /\ m_called' = {}
            /\ UNCHANGED <<m_idx, g_down>>
    /\ UNCHANGED <<now, is_running, should_stop, pre_market, after_hours, wake_at,
                   spc, max_retries, failures, m_attempt, m_caller,
                   s_target, strat_initialized, crashes, g_inits, g_ok, g_drops,
                   startAfterStop, stopAllAfterStop>>
    /\ UNCHANGED s_called
    /\ UNCHANGED outsideSched

\* strategy.shutdown() returns, or raises and stop_all logs the error
ShutdownEnds(raises) ==
    /\ mpc = "shutdown"
    /\ Quiet
    /\ strat_initialized' = IF raises THEN strat_initialized
                            ELSE [strat_initialized EXCEPT ![m_idx] = FALSE]
    /\ mpc' = "stop_next"
    /\ UNCHANGED <<now, is_running, should_stop, pre_market, after_hours, wake_at,
                   spc, max_retries, active, failures, m_idx, m_attempt, m_caller,
                   miter, siter, s_target, crashes, runnerGhost, schedGhost>>
    /\ UNCHANGED <<m_called, s_called>>
    /\ UNCHANGED outsideSched

\* _run_trading_day: clear_old_cache(), then back to the while test of start()
Sweep ==
    /\ mpc = "sweep"
    /\ lastEvent' = "sweep"
    /\ mpc' = "loop"
    /\ UNCHANGED <<now, is_running, should_stop, pre_market, after_hours, wake_at,
                   spc, max_retries, active, failures, m_idx, m_attempt, m_caller,
                   miter, siter, s_target, strat_initialized, crashes, runnerGhost,
                   startAfterStop, stopAllAfterStop>>
    /\ UNCHANGED <<m_called, s_called>>
    /\ UNCHANGED outsideSched

\* ------------------------------------------------------------ stop()'s task
\* stop() is called: should_stop is set and stop_all begins
StopRequest ==
    /\ spc = "idle"
    /\ Quiet
    /\ is_running
    /\ should_stop' = TRUE
    /\ siter' = IterOverActive
    /\ spc' = "s_next"
    /\ stopAllAfterStop' = TRUE
    /\ s_called' = ListSet(active)
    /\ UNCHANGED <<now, is_running, mpc, pre_market, after_hours, wake_at,
                   max_retries, active, failures, m_idx, m_attempt, m_caller,
                   miter, s_target, strat_initialized, crashes, runnerGhost,
                   lastEvent, startAfterStop>>
    /\ UNCHANGED m_called
    /\ UNCHANGED outsideSched

\* stop_all in stop()'s task: the for loop calls shutdown on the next
\* element, or ends and rebinds self._active
StopTaskNext ==
    /\ spc = "s_next"
    /\ IF siter.idx < Len(IterList(siter))
       THEN /\ s_target' = IterList(siter)[siter.idx + 1]
            /\ siter' = [siter EXCEPT !.idx = @ + 1]
            /\ g_down' = [g_down EXCEPT ![IterList(siter)[siter.idx + 1]] = TRUE]
            /\ spc' = "s_shutdown"
            /\ UNCHANGED <<active, miter, s_called>>
       ELSE /\ active' = <<>>
            /\ miter' = KeepOldList(miter)
            /\ siter' = NoIter
            /\ spc' = "s_done"
            /\ s_called' = {}
            /\ UNCHANGED <<s_target, g_down>>
    /\ UNCHANGED <<now, is_running, should_stop, mpc, pre_market, after_hours,
                   wake_at, max_retries, failures, m_idx, m_attempt, m_caller,
                   strat_initialized, crashes, g_inits, g_ok, g_drops, schedGhost>>
    /\ UNCHANGED m_called
    /\ UNCHANGED outsideSched

\* strategy.shutdown() called by stop()'s task returns, or raises
StopTaskShutdownEnds(raises) ==
    /\ spc = "s_shutdown"
    /\ Quiet
    /\ strat_initialized' = IF raises THEN strat_initialized
                            ELSE [strat_initialized EXCEPT ![s_target] = FALSE]
    /\ spc' = "s_next"
    /\ UNCHANGED <<now, is_running, should_stop, mpc, pre_market, after_hours,
                   wake_at, max_retries, active, failures, m_idx, m_attempt,
                   m_caller, miter, siter, s_target, crashes, runnerGhost,
                   schedGhost>>
    /\ UNCHANGED <<m_called, s_called>>
    /\ UNCHANGED outsideSched

\* ------------------------------------------------------------ environment
\* a running strategy fails on its own: its is_initialized turns false
StrategyCrash(s) ==
    /\ Quiet
    /\ strat_initialized[s]
    /\ crashes < MaxCrashes
    /\ crashes' = crashes + 1
    /\ strat_initialized' = [strat_initialized EXCEPT ![s] = FALSE]
    /\ UNCHANGED <<now, is_running, should_stop, mpc, pre_market, after_hours,
                   wake_at, spc, max_retries, active, failures, m_idx, m_attempt,
                   m_caller, miter, siter, s_target, runnerGhost, schedGhost>>
    /\ UNCHANGED <<m_called, s_called>>
    /\ UNCHANGED outsideSched

\* a second passes while a task is inside initialize, shutdown or the retry
\* sleep
TimePasses ==
    /\ \/ mpc \in {"init", "retry_sleep", "shutdown"}
       \/ spc = "s_shutdown"
    /\ DayOf(now + 1) \in Days
    /\ now' = now + 1
    /\ UNCHANGED <<is_running, should_stop, mpc, pre_market, after_hours, wake_at,
                   spc, max_retries, active, failures, m_idx, m_attempt, m_caller,
                   miter, siter, s_target, strat_initialized, crashes,
                   runnerGhost, schedGhost>>
    /\ UNCHANGED <<m_called, s_called>>
    /\ UNCHANGED outsideSched

\* the scheduler and the runner before start() is called
SchedIdle ==
    /\ n_strategies = 2
    /\ m_called = {}
    /\ s_called = {}
    /\ now = 0
    /\ is_running = FALSE
    /\ should_stop = FALSE
    /\ mpc = "terminal"
    /\ pre_market = 0
    /\ after_hours = 0
    /\ wake_at = 0
    /\ spc = "idle"
    /\ max_retries = 0
    /\ active = <<>>
    /\ failures = [x \in {} |-> 0]
    /\ m_idx = 1
    /\ m_attempt = 0
    /\ m_caller = "start_all"
    /\ miter = NoIter
    /\ siter = NoIter
    /\ s_target = 1
    /\ strat_initialized = [s \in Strategies |-> FALSE]
    /\ crashes = 0
    /\ g_inits = [s \in Strategies |-> 0]
    /\ g_ok = [s \in Strategies |-> FALSE]
    /\ g_down = [s \in Strategies |-> FALSE]
    /\ g_drops = [s \in Strategies |-> 0]
    /\ lastEvent = "none"
    /\ startAfterStop = FALSE
    /\ stopAllAfterStop = FALSE

\* ===================================================================== fan-out
\* connections are numbered 1, 2, ... in the order websockets.connect returns
ConnIds == 1..MaxConns
\* the id sets callers pass to subscribe and unsubscribe
FanIdSets == {{"aapl"}, {"AAPL", "MSFT"}}
\* reconnect_delay, in seconds
ReconnectDelay == 1

RECURSIVE Pow2(_)
Pow2(n) == IF n = 0 THEN 1 ELSE 2 * Pow2(n - 1)

\* _handle_reconnect: delay = reconnect_delay * (2 ** reconnect_count)
BackoffDelay(count) == ReconnectDelay * Pow2(count)

\* _handle_reconnect: self._reconnect_count >= self._max_reconnect_attempts
Exhausted(count) == count >= max_reconnect_attempts

NoFrames == [c \in ConnIds |-> <<>>]
SubscribeFrame(ts) == [kind |-> "subscribe", tickers |-> ts]
UnsubscribeFrame(ts) == [kind |-> "unsubscribe", tickers |-> ts]
\* websocket.send(json.dumps(message)) on connection c
SendFrame(c, frame) == [frames EXCEPT ![c] = Append(@, frame)]

\* the tickers the server streams on a connection after a sequence of frames
RECURSIVE UpstreamAfter(_)
UpstreamAfter(fs) ==
    IF fs = <<>> THEN {}
    ELSE LET before == UpstreamAfter(SubSeq(fs, 1, Len(fs) - 1))
             last == fs[Len(fs)]
         IN  IF last.kind = "subscribe" THEN before \cup last.tickers
             ELSE before \ last.tickers
Upstream(c) == UpstreamAfter(frames[c])

\* positions at which the reader task is suspended in an await
ReaderSuspended == {"ready", "recv", "dispatch", "backoff", "connecting", "sending"}
\* positions at which the reader task has finished
ReaderFinished == {"done", "dead", "cancelled"}
\* the event loop, were _dispatch_tick to keep self._lock over the gather: a
\* call that needs the lock cannot go on while the sinks run
FanQuietLockKept == lpc \notin {"listen", "dispatch"}
\* the event loop is free: the reader is not between two awaits (the locked
\* sections hold no await, so self._lock is free whenever a task is resumed)
FanQuiet == lpc # "listen"

\* disconnect: self._should_reconnect = False
ReconnectAfterCloseKept == TRUE
ReconnectAfterClose == FALSE

\* disconnect: self._subscriptions.clear()
RegistryAfterClose == EmptyMap

NoDelivery == [ticker |-> "", sinks |-> {}, raised |-> {}, delivered |-> {}]

\* _dispatch_tick, were it to await the sinks one by one and give up at the
\* first exception
DeliveredUntilRaise(callbacks_copy, raised) ==
    IF raised = {} THEN callbacks_copy ELSE raised

\* _dispatch_tick: asyncio.gather(..., return_exceptions=True) runs every
\* callback of the snapshot to its end, whichever of them raise
Delivered(callbacks_copy, raised) == callbacks_copy

\* ------------------------------------------------------------ the reader task
\* the task created by _start_listener runs for the first time
ListenerStarts ==
    /\ lpc = "ready"
    /\ ~l_cancel
    /\ lpc' = "listen"
    /\ l_from' = "start"
    /\ UNCHANGED <<subscriptions, is_connected, websocket, listener_task,
                   l_conn, l_cancel, reconnect_count, should_reconnect,
                   max_reconnect_attempts, conn_open, frames, nextConn, cpc,
                   c_tickers, c_conn, drops, calls, feeds, errorsLogged,
                   idleSpins, attemptFailed, lastWait,
                   everClosed, closedNow, deliveredAfterClose, lastDelivery>>
    /\ UNCHANGED outsideFanout

\* _listen: the while test, and _receive_messages up to the async for
Listen ==
    /\ lpc = "listen"
    /\ IF ~should_reconnect
       THEN /\ lpc' = "done"
            /\ l_conn' = l_conn
            /\ idleSpins' = idleSpins
       ELSE IF websocket = 0
       THEN /\ lpc' = "listen"
            /\ l_conn' = l_conn
            /\ idleSpins' = 1
       ELSE /\ lpc' = "recv"
            /\ l_conn' = websocket
            /\ idleSpins' = idleSpins
    /\ UNCHANGED <<subscriptions, is_connected, websocket, listener_task,
                   l_cancel, reconnect_count, should_reconnect,
                   max_reconnect_attempts, conn_open, frames, nextConn, cpc,
                   c_tickers, c_conn, drops, calls, feeds, l_from,
                   errorsLogged, attemptFailed, lastWait,
                   everClosed, closedNow, deliveredAfterClose, lastDelivery>>
    /\ UNCHANGED outsideFanout

\* _process_message and _dispatch_tick up to the gather, for a message of
\* the given ticker
StartDispatch(ticker) ==
    IF ticker \in DOMAIN subscriptions /\ subscriptions[ticker] # {}
    THEN /\ lpc' = "dispatch"
         /\ lastDelivery' = [ticker |-> ticker, sinks |-> subscriptions[ticker],
                             raised |-> {}, delivered |-> {}]
         /\ deliveredAfterClose' = (deliveredAfterClose \/ everClosed)
    ELSE /\ lpc' = "recv"
         /\ lastDelivery' = lastDelivery
         /\ deliveredAfterClose' = deliveredAfterClose

\* a message arrives while the reader waits for one
FeedTick(id) ==
    /\ lpc = "recv"
    /\ ~l_cancel
    /\ l_conn \in conn_open
    /\ wire[l_conn] = <<>>
    /\ Upper(id) \in Upstream(l_conn)
    /\ feeds < MaxFeeds
    /\ feeds' = feeds + 1
    /\ StartDispatch(Upper(id))
    /\ UNCHANGED <<subscriptions, is_connected, websocket, listener_task,
                   l_conn, l_cancel, reconnect_count, should_reconnect,
                   max_reconnect_attempts, conn_open, frames, nextConn, cpc,
                   c_tickers, c_conn, drops, calls, l_from, errorsLogged,
                   idleSpins, attemptFailed, lastWait,
                   everClosed, closedNow>>
    /\ UNCHANGED outsideFanout

\* the source sends a numbered message for a ticker it streams on an open
\* connection; the message waits there to be read
SourceEmits(c, id) ==
    /\ FanQuiet
    /\ c \in conn_open
    /\ Upper(id) \in Upstream(c)
    /\ produced < MaxProduced
    /\ produced' = produced + 1
    /\ wire' = [wire EXCEPT ![c] = Append(@, [ticker |-> Upper(id), n |-> produced + 1])]
    /\ UNCHANGED <<subscriptions, fanVars, sinkLog>>
    /\ UNCHANGED outsideProvider

\* async for, were it to yield the newest unread message
NextIndexNewest(q) == Len(q)

\* async for raw_message in self._websocket: the oldest unread message
NextIndex(q) == 1

\* the unread messages without the one at index i
WithoutIndex(q, i) == SubSeq(q, 1, i - 1) \o SubSeq(q, i + 1, Len(q))

\* the async for yields an unread message: _process_message and
\* _dispatch_tick up to the gather
Receive ==
    /\ lpc = "recv"
    /\ ~l_cancel
    /\ wire[l_conn] # <<>>
    /\ LET i == NextIndex(wire[l_conn])
           msg == wire[l_conn][i]
       IN  /\ wire' = [wire EXCEPT ![l_conn] = WithoutIndex(@, i)]
           /\ StartDispatch(msg.ticker)
           /\ sinkLog' = [k \in Sinks |->
                             IF msg.ticker \in DOMAIN subscriptions
                                /\ k \in subscriptions[msg.ticker]
                             THEN Append(sinkLog[k], msg) ELSE sinkLog[k]]
    /\ UNCHANGED <<subscriptions, is_connected, websocket, listener_task,
                   l_conn, l_cancel, reconnect_count, should_reconnect,
                   max_reconnect_attempts, conn_open, frames, nextConn, cpc,
                   c_tickers, c_conn, drops, calls, feeds, l_from, errorsLogged,
                   idleSpins, attemptFailed, lastWait,
                   everClosed, closedNow, produced>>
    /\ UNCHANGED outsideProvider

\* the gather ends: the sinks in raised have raised an exception, the others
\* have returned; _process_message returns to the async for
DispatchDone(raised) ==
    /\ lpc = "dispatch"
    /\ ~l_cancel
    /\ raised \subseteq lastDelivery.sinks
    /\ lastDelivery' = [lastDelivery EXCEPT !.raised = raised,
                            !.delivered = Delivered(lastDelivery.sinks, raised)]
    /\ lpc' = "recv"
    /\ UNCHANGED <<subscriptions, is_connected, websocket, listener_task,
                   l_conn, l_cancel, reconnect_count, should_reconnect,
                   max_reconnect_attempts, conn_open, frames, nextConn, cpc,
                   c_tickers, c_conn, drops, calls, feeds, l_from,
                   errorsLogged, idleSpins, attemptFailed, lastWait, everClosed, closedNow,
                   deliveredAfterClose>>
    /\ UNCHANGED outsideFanout

\* the async for raises ConnectionClosed: _handle_reconnect up to the sleep
ReadError ==
    /\ lpc = "recv"
    /\ ~l_cancel
    /\ l_conn \notin conn_open
    /\ is_connected' = FALSE
    /\ websocket' = 0
    /\ IF ~should_reconnect
       THEN /\ lpc' = "listen"
            /\ l_from' = "disabled"
            /\ UNCHANGED <<reconnect_count, errorsLogged, lastWait>>
       ELSE IF Exhausted(reconnect_count)
       THEN /\ lpc' = "listen"
            /\ l_from' = "exhausted"
            /\ errorsLogged' = errorsLogged + 1
            /\ UNCHANGED <<reconnect_count, lastWait>>
       ELSE /\ lpc' = "backoff"
            /\ l_from' = l_from
            /\ lastWait' = BackoffDelay(reconnect_count)
            /\ reconnect_count' = reconnect_count + 1
            /\ UNCHANGED errorsLogged
    /\ UNCHANGED <<subscriptions, listener_task, l_conn, l_cancel,
                   should_reconnect, max_reconnect_attempts, conn_open, frames,
                   nextConn, cpc, c_tickers, c_conn, drops, calls, feeds,
                   idleSpins, attemptFailed, everClosed, closedNow,
                   deliveredAfterClose, lastDelivery>>
    /\ UNCHANGED outsideFanout

\* asyncio.sleep(delay) ends: _reconnect calls _connect
BackoffEnds ==
    /\ lpc = "backoff"
    /\ ~l_cancel
    /\ lpc' = "connecting"
    /\ UNCHANGED <<subscriptions, is_connected, websocket, listener_task,
                   l_conn, l_cancel, reconnect_count, should_reconnect,
                   max_reconnect_attempts, conn_open, frames, nextConn, cpc,
                   c_tickers, c_conn, drops, calls, feeds, l_from,
                   errorsLogged, idleSpins, attemptFailed, lastWait, everClosed, closedNow, deliveredAfterClose,
                   lastDelivery>>
    /\ UNCHANGED outsideFanout

\* websockets.connect returns in _reconnect: the rest of _connect, and the
\* subscribe frame for self.subscribed_tickers
ReconnectOk ==
    /\ lpc = "connecting"
    /\ ~l_cancel
    /\ nextConn < MaxConns
    /\ nextConn' = nextConn + 1
    /\ conn_open' = conn_open \cup {nextConn + 1}
    /\ websocket' = nextConn + 1
    /\ is_connected' = TRUE
    /\ reconnect_count' = 0
    /\ attemptFailed' = FALSE
    /\ l_conn' = nextConn + 1
    /\ IF DOMAIN subscriptions # {}
       THEN /\ frames' = SendFrame(nextConn + 1, SubscribeFrame(DOMAIN subscriptions))
            /\ lpc' = "sending"
            /\ l_from' = l_from
       ELSE /\ frames' = frames
            /\ lpc' = "listen"
            /\ l_from' = "reconnected"
    /\ UNCHANGED <<subscriptions, listener_task, l_cancel, should_reconnect,
                   max_reconnect_attempts, cpc, c_tickers, c_conn, drops,
                   calls, feeds, errorsLogged, idleSpins, lastWait, everClosed,
                   closedNow, deliveredAfterClose, lastDelivery>>
    /\ UNCHANGED outsideFanout

\* websockets.connect raises in _reconnect: the exception leaves the except
\* clause of _listen and ends the task
ReconnectFails ==
    /\ lpc = "connecting"
    /\ ~l_cancel
    /\ lpc' = "dead"
    /\ attemptFailed' = TRUE
    /\ UNCHANGED <<subscriptions, is_connected, websocket, listener_task,
                   l_conn, l_cancel, reconnect_count, should_reconnect,
                   max_reconnect_attempts, conn_open, frames, nextConn, cpc,
                   c_tickers, c_conn, drops, calls, feeds, l_from,
                   errorsLogged, idleSpins, lastWait,
                   everClosed, closedNow, deliveredAfterClose, lastDelivery>>
    /\ UNCHANGED outsideFanout

\* websocket.send in _reconnect returns, or raises on a closed connection
ResubscribeSent ==
    /\ lpc = "sending"
    /\ ~l_cancel
    /\ IF l_conn \in conn_open
       THEN /\ lpc' = "listen"
            /\ l_from' = "reconnected"
       ELSE /\ lpc' = "dead"
            /\ l_from' = l_from
    /\ UNCHANGED <<subscriptions, is_connected, websocket, listener_task,
                   l_conn, l_cancel, reconnect_count, should_reconnect,
                   max_reconnect_attempts, conn_open, frames, nextConn, cpc,
                   c_tickers, c_conn, drops, calls, feeds, errorsLogged,
                   idleSpins, attemptFailed, lastWait,
                   everClosed, closedNow, deliveredAfterClose, lastDelivery>>
    /\ UNCHANGED outsideFanout

\* the cancelled task is resumed with CancelledError
ReaderCancelled ==
    /\ l_cancel
    /\ lpc \in ReaderSuspended
    /\ lpc' = "cancelled"
    /\ l_cancel' = FALSE
    /\ UNCHANGED <<subscriptions, is_connected, websocket, listener_task,
                   l_conn, reconnect_count, should_reconnect,
                   max_reconnect_attempts, conn_open, frames, nextConn, cpc,
                   c_tickers, c_conn, drops, calls, feeds, l_from,
                   errorsLogged, idleSpins, attemptFailed, lastWait, everClosed, closedNow, deliveredAfterClose,
                   lastDelivery>>
    /\ UNCHANGED outsideFanout

\* ------------------------------------------------------------ the API caller
\* subscribe(ids, sink) up to the first await of _send_subscribe_message
Subscribe(ids, sink) ==
    /\ cpc = "idle"
    /\ FanQuiet
    /\ calls < MaxCalls
    /\ calls' = calls + 1
    /\ closedNow' = FALSE
    /\ subscriptions' = RegistryAfterSubscribe(subscriptions, ids, sink)
    /\ c_tickers' = NewTickers(subscriptions, ids)
    /\ IF NewTickers(subscriptions, ids) = {}
       THEN /\ cpc' = "idle"
            /\ frames' = frames
       ELSE IF ~is_connected
       THEN /\ cpc' = "sub_connecting"
            /\ frames' = frames
       ELSE IF websocket \in conn_open
       THEN /\ cpc' = "sub_sending"
            /\ frames' = SendFrame(websocket, SubscribeFrame(NewTickers(subscriptions, ids)))
       ELSE /\ cpc' = "idle"
            /\ frames' = frames
    /\ UNCHANGED <<is_connected, websocket, listener_task, lpc, l_conn,
                   l_cancel, reconnect_count, should_reconnect,
                   max_reconnect_attempts, conn_open, nextConn, c_conn, drops,
                   feeds, l_from, errorsLogged, idleSpins, attemptFailed,
                   lastWait, everClosed, deliveredAfterClose,
                   lastDelivery>>
    /\ UNCHANGED outsideFanout

\* websockets.connect returns in _send_subscribe_message: the rest of
\* _connect, _start_listener, and the subscribe frame
SubscribeConnectOk ==
    /\ cpc = "sub_connecting"
    /\ FanQuiet
    /\ nextConn < MaxConns
    /\ nextConn' = nextConn + 1
    /\ conn_open' = conn_open \cup {nextConn + 1}
    /\ websocket' = nextConn + 1
    /\ is_connected' = TRUE
    /\ reconnect_count' = 0
    /\ IF listener_task = "none" \/ lpc \in ReaderFinished
       THEN /\ listener_task' = "set"
            /\ lpc' = "ready"
            /\ l_cancel' = FALSE
       ELSE UNCHANGED <<listener_task, lpc, l_cancel>>
    /\ frames' = SendFrame(nextConn + 1, SubscribeFrame(c_tickers))
    /\ cpc' = "sub_sending"
    /\ UNCHANGED <<subscriptions, l_conn, should_reconnect,
                   max_reconnect_attempts, c_tickers, c_conn, drops, calls,
                   feeds, l_from, errorsLogged, idleSpins, attemptFailed,
                   lastWait, everClosed, closedNow,
                   deliveredAfterClose, lastDelivery>>
    /\ UNCHANGED outsideFanout

\* websockets.connect raises in _send_subscribe_message: subscribe raises
SubscribeConnectFails ==
    /\ cpc = "sub_connecting"
    /\ FanQuiet
    /\ cpc' = "idle"
    /\ UNCHANGED <<subscriptions, is_connected, websocket, listener_task, lpc,
                   l_conn, l_cancel, reconnect_count, should_reconnect,
                   max_reconnect_attempts, conn_open, frames, nextConn,
                   c_tickers, c_conn, drops, calls, feeds, l_from,
                   errorsLogged, idleSpins, attemptFailed, lastWait, everClosed, closedNow, deliveredAfterClose,
                   lastDelivery>>
    /\ UNCHANGED outsideFanout

\* websocket.send returns in _send_subscribe_message or _send_unsubscribe_message
CallerSendDone ==
    /\ cpc \in {"sub_sending", "unsub_sending"}
    /\ FanQuiet
    /\ cpc' = "idle"
    /\ UNCHANGED <<subscriptions, is_connected, websocket, listener_task, lpc,
                   l_conn, l_cancel, reconnect_count, should_reconnect,
                   max_reconnect_attempts, conn_open, frames, nextConn,
                   c_tickers, c_conn, drops, calls, feeds, l_from,
                   errorsLogged, idleSpins, attemptFailed, lastWait, everClosed, closedNow, deliveredAfterClose,
                   lastDelivery>>
    /\ UNCHANGED outsideFanout

\* unsubscribe(ids) up to the await of _send_unsubscribe_message
Unsubscribe(ids) ==
    /\ cpc = "idle"
    /\ FanQuiet
    /\ calls < MaxCalls
    /\ calls' = calls + 1
    /\ closedNow' = FALSE
    /\ subscriptions' = RegistryAfterUnsubscribe(subscriptions, ids)
    /\ IF /\ RemovedTickers(subscriptions, ids) # {}
          /\ websocket # 0
          /\ is_connected
          /\ websocket \in conn_open
       THEN /\ cpc' = "unsub_sending"
            /\ frames' = SendFrame(websocket, UnsubscribeFrame(RemovedTickers(subscriptions, ids)))
       ELSE /\ cpc' = "idle"
            /\ frames' = frames
    /\ UNCHANGED <<is_connected, websocket, listener_task, lpc, l_conn,
                   l_cancel, reconnect_count, should_reconnect,
                   max_reconnect_attempts, conn_open, nextConn, c_tickers,
                   c_conn, drops, feeds, l_from, errorsLogged, idleSpins,
                   attemptFailed, lastWait, everClosed,
                   deliveredAfterClose, lastDelivery>>
    /\ UNCHANGED outsideFanout

\* disconnect() up to await self._listener_task; the await raises at once
\* when the task has ended with an exception
Disconnect ==
    /\ cpc = "idle"
    /\ FanQuiet
    /\ calls < MaxCalls
    /\ calls' = calls + 1
    /\ closedNow' = FALSE
    /\ should_reconnect' = ReconnectAfterClose
    /\ is_connected' = FALSE
    /\ IF listener_task = "set" /\ lpc = "dead"
       THEN /\ cpc' = "idle"
            /\ l_cancel' = l_cancel
       ELSE /\ cpc' = "disc_wait"
            /\ l_cancel' = (listener_task = "set" /\ lpc \in ReaderSuspended)
    /\ UNCHANGED <<subscriptions, websocket, listener_task, lpc, l_conn,
                   reconnect_count, max_reconnect_attempts, conn_open, frames,
                   nextConn, c_tickers, c_conn, drops, feeds, l_from,
                   errorsLogged, idleSpins, attemptFailed, lastWait, everClosed, deliveredAfterClose, lastDelivery>>
    /\ UNCHANGED outsideFanout

\* disconnect(): the listener task has ended; up to await websocket.close(),
\* or to the end when there is no connection
DisconnectAfterTask ==
    /\ cpc = "disc_wait"
    /\ FanQuiet
    /\ listener_task = "none" \/ lpc \in {"cancelled", "done"}
    /\ listener_task' = "none"
    /\ lpc' = "none"
    /\ IF websocket # 0
       THEN /\ cpc' = "disc_closing"
            /\ c_conn' = websocket
            /\ UNCHANGED <<subscriptions, everClosed, closedNow>>
       ELSE /\ cpc' = "idle"
            /\ c_conn' = c_conn
            /\ subscriptions' = RegistryAfterClose
            /\ everClosed' = TRUE
            /\ closedNow' = TRUE
    /\ UNCHANGED <<is_connected, websocket, l_conn, l_cancel, reconnect_count,
                   should_reconnect, max_reconnect_attempts, conn_open, frames,
                   nextConn, c_tickers, drops, calls, feeds, l_from,
                   errorsLogged, idleSpins, attemptFailed, lastWait, deliveredAfterClose, lastDelivery>>
    /\ UNCHANGED outsideFanout

\* disconnect(): websocket.close() returns; the registry is cleared
DisconnectClosed ==
    /\ cpc = "disc_closing"
    /\ FanQuiet
    /\ conn_open' = conn_open \ {c_conn}
    /\ websocket' = 0
    /\ subscriptions' = RegistryAfterClose
    /\ everClosed' = TRUE
    /\ closedNow' = TRUE
    /\ cpc' = "idle"
    /\ UNCHANGED <<is_connected, listener_task, lpc, l_conn, l_cancel,
                   reconnect_count, should_reconnect, max_reconnect_attempts,
                   frames, nextConn, c_tickers, c_conn, drops, calls, feeds,
                   l_from, errorsLogged, idleSpins, attemptFailed,
                   lastWait, deliveredAfterClose, lastDelivery>>
    /\ UNCHANGED outsideFanout

\* ------------------------------------------------------------ environment
\* the peer or the network closes a connection
ConnDrops(c) ==
    /\ FanQuiet
    /\ c \in conn_open
    /\ drops < MaxDrops
    /\ drops' = drops + 1
    /\ conn_open' = conn_open \ {c}
    /\ UNCHANGED <<subscriptions, is_connected, websocket, listener_task, lpc,
                   l_conn, l_cancel, reconnect_count, should_reconnect,
                   max_reconnect_attempts, frames, nextConn, cpc, c_tickers,
                   c_conn, calls, feeds, l_from, errorsLogged, idleSpins,
                   attemptFailed, lastWait, everClosed,
                   closedNow, deliveredAfterClose, lastDelivery>>
    /\ UNCHANGED outsideFanout

\* the provider after construction
FanoutIdle ==
    /\ is_connected = FALSE
    /\ websocket = 0
    /\ listener_task = "none"
    /\ lpc = "none"
    /\ l_conn = 0
    /\ l_cancel = FALSE
    /\ reconnect_count = 0
    /\ should_reconnect = TRUE
    /\ conn_open = {}
    /\ frames = NoFrames
    /\ nextConn = 0
    /\ cpc = "idle"
    /\ c_tickers = {}
    /\ c_conn = 0
    /\ drops = 0
    /\ calls = 0
    /\ feeds = 0
    /\ l_from = "none"
    /\ errorsLogged = 0
    /\ idleSpins = 0
    /\ attemptFailed = FALSE
    /\ lastWait = 0
    /\ everClosed = FALSE
    /\ closedNow = FALSE
    /\ deliveredAfterClose = FALSE
    /\ lastDelivery = NoDelivery
    /\ wire = [c \in ConnIds |-> <<>>]
    /\ produced = 0
    /\ sinkLog = [k \in Sinks |-> <<>>]

\* the strategy after construction
StrategyIdle ==
    /\ tickers = {}
    /\ is_initialized = FALSE
    /\ building_candles = EmptyMap
    /\ orders_placed = {}
    /\ warmup_complete = FALSE
    /\ bp_per_ticker = [num |-> 0, den |-> 1]
    /\ tpc = "idle"
    /\ inflight = NoFlight
    /\ sessionOrders = [s \in Symbols |-> 0]
    /\ lastOutcome = "none"
    /\ raisedFor = {}
    /\ ticksSeen = 0
    /\ tickCap = MaxTicks

\* ================================================================ ticker cache
\* FileTickerCache keeps one file <date>.json per day in its directory.  A
\* file's text is a sequence of JSON tokens: "[", "]", "," and strings.
\* Dates are day numbers; IsoTable[d + 1] is date.isoformat() of day d.
IsoTable == <<"2025-12-07", "2025-12-08", "2025-12-09", "2025-12-10", "2025-12-11">>
CacheDays == 0..MaxCacheDay
\* date.isoformat()
IsoFormat(d) == IsoTable[d + 1]
\* a stem date.fromisoformat() rejects with ValueError
ForeignStem == "notes"
Stems == {IsoFormat(d) : d \in CacheDays} \cup {ForeignStem}
ValueError == -1
\* date.fromisoformat(): the day of a stem, ValueError for any other text
FromIsoFormat(stem) ==
    IF \E i \in DOMAIN IsoTable : IsoTable[i] = stem
    THEN (CHOOSE i \in DOMAIN IsoTable : IsoTable[i] = stem) - 1
    ELSE ValueError

\* the lists handed to save_tickers: any list of str, in the caller's order
SaveLists == {<<>>, <<"AAPL">>, <<"MSFT", "AAPL">>}

\* json.dump(tickers, f, indent=2), white space left out
RECURSIVE JsonItems(_)
JsonItems(l) ==
    IF l = <<>> THEN <<>>
    ELSE IF Len(l) = 1 THEN <<l[1]>>
    ELSE <<l[1], ",">> \o JsonItems(Tail(l))
JsonDumps(l) == <<"[">> \o JsonItems(l) \o <<"]">>

\* the outcomes of json.load
NoneResult == [kind |-> "none", items |-> <<>>]
ListResult(l) == [kind |-> "list", items |-> l]
StrResult(s) == [kind |-> "str", items |-> <<s>>]
RaiseResult == [kind |-> "raise", items |-> <<>>]

IsJsonString(t) == t \notin {"[", "]", ","}
\* the items of an array from position i on: string ("," string)* "]"
RECURSIVE JsonArrayFrom(_, _, _)
JsonArrayFrom(toks, i, acc) ==
    IF i + 1 > Len(toks) \/ ~IsJsonString(toks[i]) THEN RaiseResult
    ELSE IF toks[i + 1] = "]"
         THEN IF i + 1 = Len(toks) THEN ListResult(Append(acc, toks[i])) ELSE RaiseResult
    ELSE IF toks[i + 1] = ","
         THEN JsonArrayFrom(toks, i + 2, Append(acc, toks[i]))
    ELSE RaiseResult
\* json.load(f): the value of a well-formed text, JSONDecodeError otherwise
JsonLoads(toks) ==
    IF toks = <<>> THEN RaiseResult
    ELSE IF toks[1] = "["
         THEN IF toks = <<"[", "]">> THEN ListResult(<<>>)
              ELSE JsonArrayFrom(toks, 2, <<>>)
    ELSE IF Len(toks) = 1 /\ IsJsonString(toks[1]) THEN StrResult(toks[1])
    ELSE RaiseResult

\* open(cache_file, "w") truncates the file, then json.dump writes into it:
\* when the write is cut short (OSError, or the process ends) a proper prefix
\* of the text is left behind
WriteOutcomes(text) == {SubSeq(text, 1, n) : n \in 0..Len(text)}

\* the files after  open(path, "w"); write(written)
FilesAfterWrite(fs, stem, written) ==
    [s \in DOMAIN fs \cup {stem} |-> IF s = stem THEN written ELSE fs[s]]
\* the files after unlink() of each stem in gone
FilesWithout(fs, gone) == [s \in DOMAIN fs \ gone |-> fs[s]]

\* TickerCacheBase.load_tickers -> FileTickerCache._load_tickers_impl
LoadTickers(fs, enabled, d) ==
    IF ~enabled THEN NoneResult
    ELSE IF IsoFormat(d) \notin DOMAIN fs THEN NoneResult
    ELSE JsonLoads(fs[IsoFormat(d)])

\* TickerCacheBase.save_tickers -> FileTickerCache._save_tickers_impl:
\* the files it leaves when the write puts `written` into the file
FilesAfterSave(fs, enabled, x, d, written) ==
    IF x = <<>> \/ ~enabled THEN fs
    ELSE FilesAfterWrite(fs, IsoFormat(d), written)
SaveResult(enabled, x, written) ==
    IF x = <<>> \/ ~enabled \/ written = JsonDumps(x) THEN NoneResult ELSE RaiseResult

\* file_date < today in _clear_old_cache_impl
IsStaleOrToday(file_date, today) == file_date <= today
IsStale(file_date, today) == file_date < today
\* the stems _clear_old_cache_impl unlinks when every unlink succeeds
StaleStems(fs, today) ==
    {s \in DOMAIN fs : FromIsoFormat(s) # ValueError /\ IsStale(FromIsoFormat(s), today)}

NoCacheEvent == [op |-> "none", date |-> 0, arg |-> <<>>, before |-> NoneResult,
                 result |-> NoneResult, scans |-> 0]

\* save_tickers(x, d)
SaveTickers(x, d, written) ==
    /\ written \in WriteOutcomes(JsonDumps(x))
    /\ files' = FilesAfterSave(files, cache_enabled, x, d, written)
    /\ cacheEvent' = [op |-> "save", date |-> d, arg |-> x,
                      before |-> LoadTickers(files, cache_enabled, d),
                      result |-> SaveResult(cache_enabled, x, written), scans |-> 0]
    /\ UNCHANGED <<cache_enabled, c_today>>
    /\ UNCHANGED outsideCache

\* load_tickers(d)
CacheLoad(d) ==
    /\ cacheEvent' = [op |-> "load", date |-> d, arg |-> <<>>,
                      before |-> NoneResult,
                      result |-> LoadTickers(files, cache_enabled, d), scans |-> 0]
    /\ UNCHANGED <<cache_enabled, files, c_today>>
    /\ UNCHANGED outsideCache

\* clear_old_cache(): glob("*.json") in any order; an unlink that raises
\* OSError is not caught (only ValueError is), so the files visited before
\* `failing` are gone and the others stay.  failing = "" : no unlink fails.
ClearOldCache(failing, gone) ==
    /\ \/ failing = "" /\ gone = StaleStems(files, c_today)
       \/ failing \in StaleStems(files, c_today)
          /\ gone \subseteq StaleStems(files, c_today) \ {failing}
    /\ files' = FilesWithout(files, gone)
    /\ cacheEvent' = [op |-> "sweep", date |-> c_today,
                      arg |-> SelectSeq(IsoTable, LAMBDA s : s \in gone),
                      before |-> NoneResult,
                      result |-> IF failing = "" THEN NoneResult ELSE RaiseResult,
                      scans |-> 0]
    /\ UNCHANGED <<cache_enabled, c_today>>
    /\ UNCHANGED outsideCache

\* the lexicographic order of the symbols
SymbolOrder == <<"AAPL", "AMZN", "GOOGL", "MSFT", "NVDA", "TSLA">>
\* sorted(set)
SortedList(S) == SelectSeq(SymbolOrder, LAMBDA s : s \in S)
\* the elements of a list
RangeOf(l) == {l[i] : i \in DOMAIN l}

\* main(): use today's cache entry when load_tickers returns one, otherwise
\* run the scanner once and save what it returned
MainSelect(scanned, written) ==
    LET cached == LoadTickers(files, cache_enabled, c_today)
    IN  /\ scanned \in SaveLists
        /\ written \in WriteOutcomes(JsonDumps(scanned))
        /\ IF cached.kind = "raise"
           THEN /\ cacheEvent' = [op |-> "main", date |-> c_today, arg |-> <<>>,
                                  before |-> cached, result |-> RaiseResult, scans |-> 0]
                /\ UNCHANGED files
           ELSE IF cached.kind # "none"
           THEN /\ cacheEvent' = [op |-> "main", date |-> c_today, arg |-> <<>>,
                                  before |-> cached, result |-> cached, scans |-> 0]
                /\ UNCHANGED files
           ELSE /\ files' = FilesAfterSave(files, cache_enabled, scanned, c_today, written)
                /\ cacheEvent' =
                     [op |-> "main", date |-> c_today, arg |-> scanned, before |-> cached,
                      result |-> IF SaveResult(cache_enabled, scanned, written) = RaiseResult
                                 THEN RaiseResult ELSE ListResult(scanned),
                      scans |-> 1]
        /\ UNCHANGED <<cache_enabled, c_today>>
        /\ UNCHANGED outsideCache

\* EarningStrategy.load_tickers(), called by every initialize(): scan_passes
\* runs of the scanner, the sorted union of their results; the cache is
\* neither read nor written
StrategyLoadTickers(passes, combined) ==
    /\ passes \in 1..MaxPasses
    /\ cacheEvent' = [op |-> "load_tickers", date |-> c_today, arg |-> <<>>,
                      before |-> LoadTickers(files, cache_enabled, c_today),
                      result |-> ListResult(SortedList(combined)), scans |-> passes]
    /\ UNCHANGED <<cache_enabled, files, c_today>>
    /\ UNCHANGED outsideCache

\* midnight: date.today() moves on
DayTurns ==
    /\ c_today < MaxCacheDay
    /\ c_today' = c_today + 1
    /\ cacheEvent' = NoCacheEvent
    /\ UNCHANGED <<cache_enabled, files>>
    /\ UNCHANGED outsideCache

\* the cache before any call; the directory may hold a file of another kind
CacheIdle ==
    /\ files = EmptyMap
    /\ c_today = 0
    /\ cache_enabled = TRUE
    /\ cacheEvent = NoCacheEvent

\* ================================================================ AI scanner
\* An advisor's response is a sequence of tokens: words, the separators ","
\* and "\n", "(" for any other punctuation, the code-fence marker "~~~",
\* the brackets of a JSON array, and two JSON objects written out in full.
ObjAAPL == "{\"AAPL\": 94}"
DictMSFT == "{\"Ticker\": \"MSFT\"}"
Words == {"AAPL", "MSFT", "ZZZ"}
JsonObjects == {ObjAAPL, DictMSFT}
\* the marker of a markdown code block (three backquotes)
Fence == "~~~"
Alphabet == Words \cup JsonObjects \cup {",", "\n", "(", Fence, "[", "]"}
\* two words next to each other would be one longer word
Responses ==
    {r \in UNION {[1..n -> Alphabet] : n \in 0..MaxResponseLen} :
        \A i \in 1..(Len(r) - 1) : ~(r[i] \in Words /\ r[i + 1] \in Words)}
\* the screener's tickers, as they come in
Universes == SUBSET {"aapl", "MSFT"}

\* valid_set = {ticker.upper() for ticker in valid_tickers}
ValidSet(valid_tickers) == {Upper(t) : t \in valid_tickers}

\* the characters that may follow a ticker in the scanner's pattern
\* (?:\s|,|\.|\n|$) and in the helper's, which adds ":"
TerminatorsNoComma == {"\n"}
Terminators == {",", "\n"}
\* [A-Z]{1,5}(?:\.[A-Z]{1,2})?
IsTickerShape(w) == w \in Words
\* re.finditer(ticker_pattern, text): group 1 of every match
PatternMatches(text) ==
    {text[i] : i \in {j \in DOMAIN text :
                        /\ IsTickerShape(text[j])
                        /\ j = Len(text) \/ text[j + 1] \in Terminators}}

\* EarningTomorrowAI._extract_tickers_from_response
ExtractTickersFromResponse(response, valid_tickers) ==
    {t \in PatternMatches(response) : Upper(t) \in ValidSet(valid_tickers)}

\* cleaned_response.split(fence)[1] when the response holds a fence
IndicesOf(text, tok) == {i \in DOMAIN text : text[i] = tok}
FirstIndex(S) == CHOOSE i \in S : \A j \in S : i <= j
LastIndex(S) == CHOOSE i \in S : \A j \in S : i >= j
StripFences(response) ==
    LET marks == IndicesOf(response, Fence)
    IN  IF marks = {} THEN response
        ELSE LET first == FirstIndex(marks)
                 rest == {i \in marks : i > first}
                 stop == IF rest = {} THEN Len(response) + 1 ELSE FirstIndex(rest)
             IN  SubSeq(response, first + 1, stop - 1)

\* json.loads of an array text: white space is skipped; the value is the
\* sequence of its objects, JSONDecodeError for anything else
NoSpace(text) == SelectSeq(text, LAMBDA t : t # "\n")
RECURSIVE ObjectsFrom(_, _, _)
ObjectsFrom(toks, i, acc) ==
    IF i + 1 > Len(toks) \/ toks[i] \notin JsonObjects THEN RaiseResult
    ELSE IF toks[i + 1] = "]"
         THEN IF i + 1 = Len(toks) THEN ListResult(Append(acc, toks[i])) ELSE RaiseResult
    ELSE IF toks[i + 1] = ","
         THEN ObjectsFrom(toks, i + 2, Append(acc, toks[i]))
    ELSE RaiseResult
JsonArrayLoads(text) ==
    LET toks == NoSpace(text)
    IN  IF toks = <<"[", "]">> THEN ListResult(<<>>)
        ELSE IF Len(toks) >= 3 /\ toks[1] = "[" THEN ObjectsFrom(toks, 2, <<>>)
        ELSE RaiseResult

\* _find_ticker_in_dict: the value under a key that lower-cases to "ticker"
FindTickerInDict(item) == IF item = DictMSFT THEN {"MSFT"} ELSE {}
\* the keys of a JSON object
KeysOf(item) == IF item = ObjAAPL THEN {"AAPL"} ELSE {"Ticker"}

\* _extract_from_json_array
ExtractFromJsonArray(cleaned, json_array_start, valid_set) ==
    LET ends == IndicesOf(cleaned, "]")
    IN  IF ends = {} \/ LastIndex(ends) <= json_array_start THEN {}
        ELSE LET json_data ==
                     JsonArrayLoads(SubSeq(cleaned, json_array_start, LastIndex(ends)))
             IN  IF json_data.kind # "list" THEN {}
                 ELSE UNION {FindTickerInDict(json_data.items[i]) : i \in DOMAIN json_data.items}
                        \cap valid_set

\* _extract_from_json_object: the text from the first "{" to the last "}"
\* is one object only when the response holds a single object
ExtractFromJsonObject(cleaned, valid_set) ==
    LET objs == {i \in DOMAIN cleaned : cleaned[i] \in JsonObjects}
    IN  IF FirstIndex(objs) # LastIndex(objs) THEN {}
        ELSE {k \in KeysOf(cleaned[FirstIndex(objs)]) : k \in valid_set}

\* _try_extract_from_json
TryExtractFromJson(cleaned, valid_set) ==
    LET arrays == IndicesOf(cleaned, "[")
        objs == {i \in DOMAIN cleaned : cleaned[i] \in JsonObjects}
    IN  IF arrays # {} /\ (objs = {} \/ FirstIndex(arrays) < FirstIndex(objs))
        THEN ExtractFromJsonArray(cleaned, FirstIndex(arrays), valid_set)
        ELSE IF objs # {} THEN ExtractFromJsonObject(cleaned, valid_set)
        ELSE {}

\* _extract_from_text
ExtractFromText(cleaned, valid_set) == PatternMatches(cleaned) \cap valid_set

\* common.helpers.extract_tickers_from_response
HelperExtract(response, valid_tickers) ==
    LET cleaned == StripFences(response)
        suggested == TryExtractFromJson(cleaned, ValidSet(valid_tickers))
    IN  IF suggested # {} THEN suggested
        ELSE ExtractFromText(cleaned, ValidSet(valid_tickers))

\* the advisors' symbol sets in a scan
ScanSymbols == {"AAPL", "MSFT", "GOOGL", "TSLA", "NVDA", "AMZN"}
\* _find_consensus
FindConsensusUnion(grok_suggestions, gemini_suggestions) ==
    grok_suggestions \cup gemini_suggestions
FindConsensus(grok_suggestions, gemini_suggestions) ==
    grok_suggestions \cap gemini_suggestions
\* list(set): the elements once each, in an order the set's hashing decides
RECURSIVE ListsOf(_)
ListsOf(S) ==
    IF S = {} THEN {<<>>}
    ELSE UNION {{<<x>> \o l : l \in ListsOf(S \ {x})} : x \in S}

NoScanEvent == [op |-> "none", universe |-> {}, response |-> <<>>, scanner |-> {},
                helper |-> {}, grok |-> {}, gemini |-> {}, returned |-> <<>>,
                watch |-> <<>>]

\* the inputs of an extraction and of a scan
ExtractInputs ==
    {[NoScanEvent EXCEPT !.op = "extract_in", !.universe = u, !.response = r] :
        u \in Universes, r \in Responses}
ScanInputs ==
    {[NoScanEvent EXCEPT !.op = "scan_in", !.grok = g, !.gemini = m] :
        g \in SUBSET ScanSymbols, m \in SUBSET ScanSymbols}

\* one advisor response through both extractors
Extract ==
    /\ scanEvent.op = "extract_in"
    /\ scanEvent' = [scanEvent EXCEPT
                       !.op = "extract",
                       !.scanner = ExtractTickersFromResponse(scanEvent.response,
                                                              scanEvent.universe),
                       !.helper = HelperExtract(scanEvent.response, scanEvent.universe)]
    /\ UNCHANGED <<readers, decoded>>
    /\ UNCHANGED outsideScan

\* EarningTomorrowAI.scan from the two suggestion sets on: the consensus as
\* list(set), and EarningStrategy.load_tickers' sorted(combined) of one pass
Scan ==
    /\ scanEvent.op = "scan_in"
    /\ \E returned \in ListsOf(FindConsensus(scanEvent.grok, scanEvent.gemini)) :
          scanEvent' = [scanEvent EXCEPT
                          !.op = "scan", !.returned = returned,
                          !.watch = SortedList(RangeOf(returned))]
    /\ UNCHANGED <<readers, decoded>>
    /\ UNCHANGED outsideScan

\* ------------------------------------------------- reader tasks and on_candle
\* The tasks asyncio.create_task(self._listen()) has made, numbered in the
\* order of their creation, with the on_candle call each of them is in.
\* readers.listener_task is self._listener_task (0 for None).
TaskIds == 1..MaxTasks
NoTask == [pc |-> "none", ticker |-> ""]
NoReaders == [listener_task |-> 0, task |-> [i \in TaskIds |-> NoTask], created |-> 0,
              is_connected |-> FALSE, should_reconnect |-> TRUE, subs |-> {},
              candles |-> 0]

\* _start_listener, were it to make a task on every call
NeedsListenerAlways(r) == TRUE
\* _start_listener: self._listener_task is None or self._listener_task.done()
NeedsListener(r) ==
    r.listener_task = 0 \/ r.task[r.listener_task].pc = "done"

\* _listen: a new task runs up to the async for, or finds the while test
\* false and ends
FirstPosition(r) == IF r.should_reconnect THEN "recv" ELSE "done"

\* _send_subscribe_message when not connected: _connect, then _start_listener
ConnectAndStart(r) ==
    IF NeedsListener(r)
    THEN [r EXCEPT !.is_connected = TRUE,
                   !.created = @ + 1,
                   !.listener_task = r.created + 1,
                   !.task[r.created + 1] = [pc |-> FirstPosition(r), ticker |-> ""]]
    ELSE [r EXCEPT !.is_connected = TRUE]

\* initialize of the strategy: subscribe(ts, self.on_tick); the connection
\* is opened when a ticker is new and the provider is not connected
ReaderSubscribe(ts) ==
    /\ ts # {}
    /\ NeedsListener(readers) /\ ~readers.is_connected /\ ~(ts \subseteq readers.subs)
          => readers.created < MaxTasks
    /\ readers' =
          LET r == [readers EXCEPT !.subs = @ \cup ts] IN
          IF ts \subseteq readers.subs \/ readers.is_connected THEN r
          ELSE ConnectAndStart(r)
    /\ UNCHANGED <<scanEvent, decoded>>
    /\ UNCHANGED outsideScan

\* shutdown of the strategy: unsubscribe(self._tickers)
ReaderUnsubscribe ==
    /\ readers.subs # {}
    /\ readers' = [readers EXCEPT !.subs = {}]
    /\ UNCHANGED <<scanEvent, decoded>>
    /\ UNCHANGED outsideScan

\* task i reads a message of a ticker the strategy is subscribed to; the
\* tick closes a candle and on_tick awaits on_candle, which awaits the broker
ReaderTick(i, t) ==
    /\ readers.task[i].pc = "recv"
    /\ t \in readers.subs
    /\ readers.candles < MaxCandles
    /\ readers' = [readers EXCEPT !.task[i] = [pc |-> "on_candle", ticker |-> t],
                                  !.candles = @ + 1]
    /\ UNCHANGED <<scanEvent, decoded>>
    /\ UNCHANGED outsideScan

\* on_candle of task i returns or raises; gather ends and the task goes back
\* to the async for
ReaderCandleEnds(i) ==
    /\ readers.task[i].pc = "on_candle"
    /\ readers' = [readers EXCEPT !.task[i] = [pc |-> "recv", ticker |-> ""]]
    /\ UNCHANGED <<scanEvent, decoded>>
    /\ UNCHANGED outsideScan

\* the async for of task i raises ConnectionClosed: _handle_reconnect up to
\* its sleep, or back to the while test of _listen
ReaderConnectionClosed(i) ==
    /\ readers.task[i].pc = "recv"
    /\ readers' = [readers EXCEPT
                     !.is_connected = FALSE,
                     !.task[i].pc = IF readers.should_reconnect THEN "backoff" ELSE "done"]
    /\ UNCHANGED <<scanEvent, decoded>>
    /\ UNCHANGED outsideScan

\* the sleep of _handle_reconnect ends in task i: _reconnect connects, or
\* websockets.connect raises and the exception ends the task
ReaderReconnect(i, ok) ==
    /\ readers.task[i].pc = "backoff"
    /\ readers' = IF ok
                  THEN [readers EXCEPT !.is_connected = TRUE, !.task[i].pc = "recv"]
                  ELSE [readers EXCEPT !.task[i].pc = "done"]
    /\ UNCHANGED <<scanEvent, decoded>>
    /\ UNCHANGED outsideScan

\* disconnect(): the listener task is cancelled and awaited, whatever it is
\* in (an on_candle call included); the registry is cleared
ReaderDisconnect ==
    /\ readers.listener_task # 0
    /\ readers' = [readers EXCEPT
                     !.should_reconnect = FALSE,
                     !.is_connected = FALSE,
                     !.task[readers.listener_task] = [pc |-> "done", ticker |-> ""],
                     !.listener_task = 0,
                     !.subs = {}]
    /\ UNCHANGED <<scanEvent, decoded>>
    /\ UNCHANGED outsideScan

\* ------------------------------------------------- PricingDataDecoder
\* field 7 of a payload as _parse_fields leaves it: not there, a varint, or
\* the bytes of another wire type
PhaseFields ==
    {[wire |-> "absent", value |-> 0], [wire |-> "bytes", value |-> 0]}
        \cup {[wire |-> "varint", value |-> n] : n \in 0..MaxPhase}
Payloads == [id : Symbols, phase : PhaseFields]

\* class MarketHours(IntEnum)
PRE_MARKET == 0
REGULAR_MARKET == 1
OVERNIGHT_MARKET == 4
MarketHoursValues == PRE_MARKET..OVERNIGHT_MARKET

\* fields.get(7, 1), then _to_int
ToInt(field) ==
    IF field.wire = "absent" THEN REGULAR_MARKET
    ELSE IF field.wire = "varint" THEN field.value
    ELSE 0

\* MarketHours(n): the member with value n, ValueError when there is none
MarketHours(n) ==
    IF n \in MarketHoursValues THEN [raises |-> FALSE, value |-> n]
    ELSE [raises |-> TRUE, value |-> ValueError]

\* decode: the PricingData, or the exception of MarketHours(...)
Decode(payload) ==
    LET mh == MarketHours(ToInt(payload.phase))
    IN  [raises |-> mh.raises, id |-> payload.id, market_hours |-> mh.value]

NoDecoded == [op |-> "none", payload |-> [id |-> "", phase |-> [wire |-> "absent", value |-> 0]],
              should_reconnect |-> TRUE, exhausted |-> FALSE,
              tick |-> [raises |-> FALSE, id |-> "", market_hours |-> REGULAR_MARKET],
              is_connected |-> TRUE, reader |-> "recv"]
\* a message is read on a live connection; the provider may have been told
\* to disconnect, and its reconnect attempts may be used up
DecodeInputs ==
    {[NoDecoded EXCEPT !.op = "message", !.payload = p, !.should_reconnect = s,
                       !.exhausted = e] :
        p \in Payloads, s \in BOOLEAN, e \in BOOLEAN}

\* _process_message: decode, and _dispatch_tick when decode returned
ProcessMessage ==
    /\ decoded.op = "message"
    /\ decoded' = [decoded EXCEPT
                     !.op = IF Decode(decoded.payload).raises THEN "raised" ELSE "dispatched",
                     !.tick = Decode(decoded.payload)]
    /\ UNCHANGED <<scanEvent, readers>>
    /\ UNCHANGED outsideScan

\* _listen: the async for goes on after a dispatch; an exception of
\* _process_message is logged and _handle_reconnect drops the connection and
\* returns, or sleeps before _reconnect
ListenGoesOn ==
    /\ decoded.op \in {"raised", "dispatched"}
    /\ decoded' =
          IF decoded.op = "dispatched"
          THEN [decoded EXCEPT !.op = "handled"]
          ELSE [decoded EXCEPT
                  !.op = "handled",
                  !.is_connected = FALSE,
                  !.reader = IF ~decoded.should_reconnect THEN "done"
                             ELSE IF decoded.exhausted THEN "listen"
                             ELSE "backoff"]
    /\ UNCHANGED <<scanEvent, readers>>
    /\ UNCHANGED outsideScan

ScanIdle == scanEvent = NoScanEvent /\ readers = NoReaders /\ decoded = NoDecoded


\* ------------------------------------------------- load_tickers over passes
\* what _get_ai_suggestions gives for one advisor in one pass: the set it
\* extracted, or the exception of the advisor's call, which it re-raises
AdvisorFailed == [ok |-> FALSE, tickers |-> {}]
AdvisorAnswers == {[ok |-> TRUE, tickers |-> S] : S \in SUBSET Symbols} \cup {AdvisorFailed}
PassAnswers == [grok : AdvisorAnswers, gemini : AdvisorAnswers]
\* the answers of scan_passes passes, scan_passes in 1..MaxPasses
PassInputs == UNION {[1..p -> PassAnswers] : p \in 1..MaxPasses}

\* EarningTomorrowAI.scan raises when either advisor call raised
ScanRaises(a) == ~a.grok.ok \/ ~a.gemini.ok

NoPassEvent == [op |-> "passes_in", answers |-> <<>>, pass_num |-> 0,
                combined |-> {}, watch |-> <<>>]
PassEvents == {[NoPassEvent EXCEPT !.answers = a] : a \in PassInputs}

\* load_tickers: one pass of the for loop; an exception of scan leaves
\* load_tickers (and initialize, which awaits it)
LoadTickersPass ==
    /\ scanEvent.op \in {"passes_in", "passes_run"}
    /\ scanEvent.pass_num < Len(scanEvent.answers)
    /\ LET a == scanEvent.answers[scanEvent.pass_num + 1] IN
       scanEvent' =
          IF ScanRaises(a)
          THEN [scanEvent EXCEPT !.op = "passes_raised", !.pass_num = @ + 1]
          ELSE [scanEvent EXCEPT
                  !.op = "passes_run", !.pass_num = @ + 1,
                  !.combined = @ \cup FindConsensus(a.grok.tickers, a.gemini.tickers)]
    /\ UNCHANGED <<readers, decoded>>
    /\ UNCHANGED outsideScan

\* load_tickers after the last pass: sorted(combined)
LoadTickersReturns ==
    /\ scanEvent.op = "passes_run"
    /\ scanEvent.pass_num = Len(scanEvent.answers)
    /\ scanEvent' = [scanEvent EXCEPT !.op = "passes_done",
                                      !.watch = SortedList(scanEvent.combined)]
    /\ UNCHANGED <<readers, decoded>>
    /\ UNCHANGED outsideScan

\* =============================================================== specifications
InitStrategy ==
    /\ subscriptions = EmptyMap
    /\ StrategyIdle
    /\ clockWarm \in BOOLEAN
    /\ SchedIdle
    /\ FanoutIdle
    /\ CacheIdle
    /\ ScanIdle
    /\ max_reconnect_attempts = 0

\* the ticks the feed delivers under SpecStrategy
StratTicks == [id : RawIds, price : Prices, time : 0..MaxTickTime, last_size : {1}]

NextStrategy ==
    \/ \E data \in StratTicks : OnTick(data)
    \/ PlaceOrderReturns
    \/ PlaceOrderRaises
    \/ \E scan \in SUBSET Symbols, bp \in BuyingPowers,
          outcome \in {"load_fail", "subscribe_fail", "ok"} :
          StratInitialize(scan, bp, outcome)
    \/ \E outcome \in {"unsub_fail", "ok"} : StratShutdown(outcome)
    \/ ClockTurns

SpecStrategy == InitStrategy /\ [][NextStrategy]_vars

\* one strategy trading one ticker: candles of up to three ticks and the
\* order computed from them, for several allocations
CandlePrices == {100, 10000}
CandleSizes == {0, 1}
CandleBuyingPowers == {5000, 15000, 100000}
CandleTickSet == [id : {"AAPL"}, price : CandlePrices, time : 0..MaxTickTime,
                  last_size : CandleSizes]

InitCandle ==
    /\ subscriptions = EmptyMap
    /\ tickers = {}
    /\ is_initialized = FALSE
    /\ building_candles = EmptyMap
    /\ orders_placed = {}
    /\ warmup_complete = FALSE
    /\ bp_per_ticker = [num |-> 0, den |-> 1]
    /\ tpc = "idle"
    /\ inflight = NoFlight
    /\ sessionOrders = [s \in Symbols |-> 0]
    /\ lastOutcome = "none"
    /\ raisedFor = {}
    /\ ticksSeen = 0
    /\ tickCap = MaxCandleTicks
    /\ clockWarm = TRUE
    /\ SchedIdle
    /\ FanoutIdle
    /\ CacheIdle
    /\ ScanIdle
    /\ max_reconnect_attempts = 0

NextCandle ==
    \/ \E data \in CandleTickSet : OnTick(data)
    \/ PlaceOrderReturns
    \/ PlaceOrderRaises
    \/ \E bp \in CandleBuyingPowers : StratInitialize({"AAPL"}, bp, "ok")

SpecCandle == InitCandle /\ [][NextCandle]_vars

\* the same strategy on a ticker that trades at a few cents
CentPrices == {1, 13, 100}
CentTickSet == [id : {"AAPL"}, price : CentPrices, time : 0..MaxTickTime,
                last_size : {1}]

NextCents ==
    \/ \E data \in CentTickSet : OnTick(data)
    \/ PlaceOrderReturns
    \/ PlaceOrderRaises
    \/ \E bp \in CandleBuyingPowers : StratInitialize({"AAPL"}, bp, "ok")

SpecCents == InitCandle /\ [][NextCents]_vars

\* start() has been called on a fresh scheduler: on the holiday, or on the
\* session day before, at and after the pre-market open
StartTimes == {0, GetPreMarketOpen(1) - 1, GetPreMarketOpen(1), GetAfterHoursClose(1)}

InitSched ==
    /\ subscriptions = EmptyMap
    /\ StrategyIdle
    /\ clockWarm = FALSE
    /\ n_strategies = 2
    /\ m_called = {}
    /\ s_called = {}
    /\ now \in StartTimes
    /\ is_running = TRUE
    /\ should_stop = FALSE
    /\ mpc = "loop"
    /\ pre_market = 0
    /\ after_hours = 0
    /\ wake_at = 0
    /\ spc = "idle"
    /\ max_retries \in 0..MaxRetriesCfg
    /\ active = <<>>
    /\ failures = [x \in {} |-> 0]
    /\ m_idx = 1
    /\ m_attempt = 0
    /\ m_caller = "start_all"
    /\ miter = NoIter
    /\ siter = NoIter
    /\ s_target = 1
    /\ strat_initialized = [s \in Strategies |-> FALSE]
    /\ crashes = 0
    /\ g_inits = [s \in Strategies |-> 0]
    /\ g_ok = [s \in Strategies |-> FALSE]
    /\ g_down = [s \in Strategies |-> FALSE]
    /\ g_drops = [s \in Strategies |-> 0]
    /\ lastEvent = "none"
    /\ startAfterStop = FALSE
    /\ stopAllAfterStop = FALSE
    /\ FanoutIdle
    /\ CacheIdle
    /\ ScanIdle
    /\ max_reconnect_attempts = 0

MainStep ==
    \/ LoopExit
    \/ BeginDay
    \/ WaitUntil
    \/ WaitWake
    \/ AfterWait
    \/ StartNext
    \/ TryInit
    \/ InitializeReturns
    \/ InitializeRaises
    \/ RetryWake
    \/ RunUntil
    \/ HealthNext
    \/ ServeWake
    \/ StopNext
    \/ \E raises \in BOOLEAN : ShutdownEnds(raises)
    \/ Sweep

StopTaskStep ==
    \/ StopTaskNext
    \/ \E raises \in BOOLEAN : StopTaskShutdownEnds(raises)

NextSched ==
    \/ MainStep
    \/ StopRequest
    \/ StopTaskStep
    \/ \E s \in Strategies : StrategyCrash(s)
    \/ TimePasses

SpecSched == InitSched /\ [][NextSched]_vars

\* the event loop resumes a task that can run; initialize and shutdown
\* calls and sleeps come to an end
SpecSchedFair ==
    /\ SpecSched
    /\ WF_vars(MainStep)
    /\ WF_vars(StopTaskStep)

\* start() has been called just before the pre-market open of the session
\* day on a scheduler with three strategies and MaxRetriesCfg attempts
InitRunner ==
    /\ subscriptions = EmptyMap
    /\ StrategyIdle
    /\ clockWarm = FALSE
    /\ n_strategies = 3
    /\ m_called = {}
    /\ s_called = {}
    /\ now = GetPreMarketOpen(1) - 1
    /\ is_running = TRUE
    /\ should_stop = FALSE
    /\ mpc = "loop"
    /\ pre_market = 0
    /\ after_hours = 0
    /\ wake_at = 0
    /\ spc = "idle"
    /\ max_retries = MaxRetriesCfg
    /\ active = <<>>
    /\ failures = [x \in {} |-> 0]
    /\ m_idx = 1
    /\ m_attempt = 0
    /\ m_caller = "start_all"
    /\ miter = NoIter
    /\ siter = NoIter
    /\ s_target = 1
    /\ strat_initialized = [s \in Strategies |-> FALSE]
    /\ crashes = 0
    /\ g_inits = [s \in Strategies |-> 0]
    /\ g_ok = [s \in Strategies |-> FALSE]
    /\ g_down = [s \in Strategies |-> FALSE]
    /\ g_drops = [s \in Strategies |-> 0]
    /\ lastEvent = "none"
    /\ startAfterStop = FALSE
    /\ stopAllAfterStop = FALSE
    /\ FanoutIdle
    /\ CacheIdle
    /\ ScanIdle
    /\ max_reconnect_attempts = 0

SpecRunner == InitRunner /\ [][NextSched]_vars

\* start() is called at any second of the day before the session day and of
\* the session day up to its after-hours close, on a scheduler with one
\* strategy
WaitStarts == 0..GetAfterHoursClose(1)

InitWait ==
    /\ subscriptions = EmptyMap
    /\ StrategyIdle
    /\ clockWarm = FALSE
    /\ n_strategies = 1
    /\ m_called = {}
    /\ s_called = {}
    /\ now \in WaitStarts
    /\ is_running = TRUE
    /\ should_stop = FALSE
    /\ mpc = "loop"
    /\ pre_market = 0
    /\ after_hours = 0
    /\ wake_at = 0
    /\ spc = "idle"
    /\ max_retries = MaxRetriesCfg
    /\ active = <<>>
    /\ failures = [x \in {} |-> 0]
    /\ m_idx = 1
    /\ m_attempt = 0
    /\ m_caller = "start_all"
    /\ miter = NoIter
    /\ siter = NoIter
    /\ s_target = 1
    /\ strat_initialized = [s \in Strategies |-> FALSE]
    /\ crashes = 0
    /\ g_inits = [s \in Strategies |-> 0]
    /\ g_ok = [s \in Strategies |-> FALSE]
    /\ g_down = [s \in Strategies |-> FALSE]
    /\ g_drops = [s \in Strategies |-> 0]
    /\ lastEvent = "none"
    /\ startAfterStop = FALSE
    /\ stopAllAfterStop = FALSE
    /\ FanoutIdle
    /\ CacheIdle
    /\ ScanIdle
    /\ max_reconnect_attempts = 0

SpecWait == InitWait /\ [][NextSched]_vars

\* a fresh provider, built with no reconnect attempt allowed or with
\* MaxAttemptsCfg of them; the scheduler and the strategy are not modelled here
InitFanout ==
    /\ subscriptions = EmptyMap
    /\ StrategyIdle
    /\ clockWarm = FALSE
    /\ SchedIdle
    /\ FanoutIdle
    /\ CacheIdle
    /\ ScanIdle
    /\ max_reconnect_attempts \in {0, MaxAttemptsCfg}

ReaderStep ==
    \/ ListenerStarts
    \/ Listen
    \/ \E id \in Symbols : FeedTick(id)
    \/ \E raised \in SUBSET Sinks : DispatchDone(raised)
    \/ ReadError
    \/ BackoffEnds
    \/ ReconnectOk
    \/ ReconnectFails
    \/ ResubscribeSent
    \/ ReaderCancelled

CallerStep ==
    \/ \E ids \in FanIdSets, sink \in Sinks : Subscribe(ids, sink)
    \/ SubscribeConnectOk
    \/ SubscribeConnectFails
    \/ CallerSendDone
    \/ \E ids \in FanIdSets : Unsubscribe(ids)
    \/ Disconnect
    \/ DisconnectAfterTask
    \/ DisconnectClosed

NextFanout ==
    \/ ReaderStep
    \/ CallerStep
    \/ \E c \in ConnIds : ConnDrops(c)

SpecFanout == InitFanout /\ [][NextFanout]_vars

\* the provider with a source that sends numbered messages: the reader task,
\* a few subscribe and unsubscribe calls, and connections that drop
OrderReaderStep ==
    \/ ListenerStarts
    \/ Listen
    \/ Receive
    \/ \E raised \in SUBSET Sinks : DispatchDone(raised)
    \/ ReadError
    \/ BackoffEnds
    \/ ReconnectOk
    \/ ReconnectFails
    \/ ResubscribeSent

\* the subscribe and unsubscribe calls made while the source is sending
OrderSubscribe(ids, sink) == calls < OrderCalls /\ Subscribe(ids, sink)
OrderUnsubscribe(ids) == calls < OrderCalls /\ Unsubscribe(ids)

OrderCallerStep ==
    \/ \E ids \in FanIdSets, sink \in Sinks : OrderSubscribe(ids, sink)
    \/ SubscribeConnectOk
    \/ SubscribeConnectFails
    \/ CallerSendDone
    \/ \E ids \in FanIdSets : OrderUnsubscribe(ids)

NextOrder ==
    \/ OrderReaderStep
    \/ OrderCallerStep
    \/ \E c \in ConnIds, id \in Symbols : SourceEmits(c, id)
    \/ \E c \in ConnIds : ConnDrops(c)

SpecOrder == InitFanout /\ [][NextOrder]_vars

\* ---- the ticker cache and the selection of the watch list
InitCache ==
    /\ subscriptions = EmptyMap
    /\ StrategyIdle
    /\ clockWarm = TRUE
    /\ SchedIdle
    /\ FanoutIdle
    /\ max_reconnect_attempts = 0
    /\ files \in {EmptyMap, [s \in {ForeignStem} |-> <<"[", "]">>]}
    /\ c_today = 0
    /\ cache_enabled \in BOOLEAN
    /\ cacheEvent = NoCacheEvent
    /\ ScanIdle

\* entries are saved under today's date (main.py) or rewritten for a day
\* that has passed; no entry is written for a day to come
NextCache ==
    \/ \E x \in SaveLists, d \in 0..c_today :
          \E written \in WriteOutcomes(JsonDumps(x)) : SaveTickers(x, d, written)
    \/ \E d \in CacheDays : CacheLoad(d)
    \/ \E failing \in Stems \cup {""}, gone \in SUBSET Stems : ClearOldCache(failing, gone)
    \/ \E scanned \in SaveLists :
          \E written \in WriteOutcomes(JsonDumps(scanned)) : MainSelect(scanned, written)
    \/ \E passes \in 1..MaxPasses, combined \in SUBSET Symbols :
          StrategyLoadTickers(passes, combined)
    \/ DayTurns

SpecCache == InitCache /\ [][NextCache]_vars

\* ---- the scanner's pure functions on bounded inputs
InitScan ==
    /\ subscriptions = EmptyMap
    /\ StrategyIdle
    /\ clockWarm = TRUE
    /\ SchedIdle
    /\ FanoutIdle
    /\ CacheIdle
    /\ max_reconnect_attempts = 0
    /\ scanEvent \in ExtractInputs \cup ScanInputs
    /\ readers = NoReaders
    /\ decoded = NoDecoded

NextScan ==
    \/ Extract
    \/ Scan

SpecScan == InitScan /\ [][NextScan]_vars


\* ---- load_tickers on every combination of advisor answers per pass
InitPasses ==
    /\ subscriptions = EmptyMap
    /\ StrategyIdle
    /\ clockWarm = TRUE
    /\ SchedIdle
    /\ FanoutIdle
    /\ CacheIdle
    /\ max_reconnect_attempts = 0
    /\ scanEvent \in PassEvents
    /\ readers = NoReaders
    /\ decoded = NoDecoded

NextPasses ==
    \/ LoadTickersPass
    \/ LoadTickersReturns

SpecPasses == InitPasses /\ [][NextPasses]_vars


\* ---- the reader tasks of the provider and the on_candle calls they make
InitReaders ==
    /\ subscriptions = EmptyMap
    /\ StrategyIdle
    /\ clockWarm = TRUE
    /\ SchedIdle
    /\ FanoutIdle
    /\ CacheIdle
    /\ max_reconnect_attempts = 0
    /\ scanEvent = NoScanEvent
    /\ readers = NoReaders
    /\ decoded = NoDecoded

NextReaders ==
    \/ \E ts \in SUBSET Symbols : ReaderSubscribe(ts)
    \/ ReaderUnsubscribe
    \/ \E i \in TaskIds, t \in Symbols : ReaderTick(i, t)
    \/ \E i \in TaskIds : ReaderCandleEnds(i)
    \/ \E i \in TaskIds : ReaderConnectionClosed(i)
    \/ \E i \in TaskIds, ok \in BOOLEAN : ReaderReconnect(i, ok)
    \/ ReaderDisconnect

SpecReaders == InitReaders /\ [][NextReaders]_vars


\* ---- the decoder and the reader on every payload
InitDecode ==
    /\ subscriptions = EmptyMap
    /\ StrategyIdle
    /\ clockWarm = TRUE
    /\ SchedIdle
    /\ FanoutIdle
    /\ CacheIdle
    /\ max_reconnect_attempts = 0
    /\ scanEvent = NoScanEvent
    /\ readers = NoReaders
    /\ decoded \in DecodeInputs

NextDecode ==
    \/ ProcessMessage
    \/ ListenGoesOn

SpecDecode == InitDecode /\ [][NextDecode]_vars



\* ------------------------------------------------------------------ C1
\* C1: in one session (initialize to shutdown) the strategy completes at most
\* one successful place_order call per ticker, whatever ticks, closed candles,
\* broker failures and restarts occur.
C1_AtMostOneOrder == \A s \in Symbols : sessionOrders[s] <= 1

\* an order was placed for a ticker and a later closed candle was refused
C1_Witness == \E s \in Symbols : sessionOrders[s] = 1 /\ lastOutcome = "duplicate"

\* ------------------------------------------------------------------ C2
\* C2: a ticker enters orders_placed only in the step in which place_order
\* returns for it; when place_order raises, the exception leaves on_candle,
\* the ticker stays untagged and its closed candle is kept, and a closed candle
\* is refused as a duplicate only for a tagged ticker, so the next eligible
\* closed candle of a failed ticker reaches place_order again.
C2_TagOnlyOnSuccess ==
    [][ /\ \A s \in Symbols :
              (s \in orders_placed' /\ s \notin orders_placed)
                  => (tpc = "placing" /\ inflight.ticker = s /\ lastOutcome' = "placed")
        /\ (tpc = "placing" /\ lastOutcome' = "raised")
              => /\ inflight.ticker \notin orders_placed'
                 /\ building_candles' = building_candles
                 /\ tpc' = "idle"
        /\ \A s \in DOMAIN building_candles :
              (ticksSeen' # ticksSeen /\ lastOutcome' = "duplicate"
                  /\ building_candles'[s] # building_candles[s])
                  => s \in orders_placed
      ]_vars

\* a ticker whose place_order raised was ordered by a later candle
C2_Witness == \E s \in raisedFor : sessionOrders[s] = 1 /\ s \in orders_placed

\* ------------------------------------------------------------------ C3
\* start_all has dealt with strategy s in the start_all call under way or
\* the latest one completed
StartAllPassed(s) ==
    \/ lastEvent \in {"start_done", "health_check", "stop_all", "stop_done", "sweep"}
    \/ lastEvent = "start_all" /\ m_idx > s

\* C3: start_all calls initialize on a strategy until the first success or
\* until max_retries calls have failed, never more; a strategy is in the
\* active list only if a call succeeded, and when start_all completes (no
\* stop() having run meanwhile) every strategy with a successful call is in
\* it; a strategy all of whose calls raised has been called exactly
\* max_retries times, is not active, gets no further initialize call while
\* the session is served and no shutdown call from stop_all.
C3_BoundedStart ==
    \A s \in Strategies :
        /\ g_inits[s] <= max_retries
        /\ InList(s, active) => g_ok[s]
        /\ (lastEvent = "start_done" /\ ~should_stop /\ g_ok[s]) => InList(s, active)
        /\ (StartAllPassed(s) /\ ~g_ok[s])
              => (g_inits[s] = max_retries /\ ~InList(s, active) /\ ~g_down[s])

\* a session ran to the end of stop_all in which one strategy failed all of
\* its two or more attempts and another one started on its second attempt
C3_Witness ==
    \E s, t \in Strategies :
        /\ lastEvent = "stop_done"
        /\ max_retries >= 2
        /\ ~g_ok[s] /\ g_inits[s] = max_retries /\ ~g_down[s]
        /\ g_ok[t] /\ g_inits[t] = 2 /\ g_down[t]

\* ------------------------------------------------------------------ C4
\* C4: a strategy whose liveness flag was found dropped max_retries times by
\* health_check in one session is not initialized again in that session.
C4_NoInitAfterRDrops ==
    \A s \in Strategies :
        (mpc = "init" /\ m_idx = s) => g_drops[s] < max_retries

DayCycleOrder ==
    { <<"none", "wait">>, <<"wait", "start_all">>, <<"start_all", "start_done">>,
      <<"start_done", "health_check">>, <<"start_done", "stop_all">>,
      <<"health_check", "stop_all">>, <<"stop_all", "stop_done">>,
      <<"stop_done", "sweep">>, <<"sweep", "wait">> }

\* C6: a day cycle is: wait for the pre-market open, start_all, health checks
\* while serving, stop_all once the after-hours close has passed or stop()
\* was requested, the cache sweep, then the wait for the next pre-market
\* open; start_all never begins before the pre-market open, health_check
\* runs only between the end of start_all and the start of stop_all, and the
\* sweep runs only after stop_all has completed.
C6_DayCycle ==
    /\ [][lastEvent' # lastEvent => <<lastEvent, lastEvent'>> \in DayCycleOrder]_vars
    /\ [](lastEvent \in {"start_all", "start_done", "health_check"} => now >= pre_market)
    /\ [](lastEvent \in {"stop_all", "stop_done", "sweep"}
             => (now >= after_hours \/ should_stop))
    /\ [](mpc = "health_next" => lastEvent = "health_check")
    /\ [](mpc = "sweep" => lastEvent = "stop_done")

\* a served session, with a flag drop handled and a shutdown at its end, has
\* been swept and the scheduler waits again
C6_Witness ==
    /\ lastEvent = "wait"
    /\ ~should_stop
    /\ \E s \in Strategies : g_ok[s] /\ g_down[s] /\ g_drops[s] >= 1

\* ------------------------------------------------------------------ C7
\* C7: when a reconnect has succeeded and the registry is not empty, every
\* ticker of the registry is subscribed upstream on the connection the
\* reader goes on to read, so that its ticks reach the registered sinks.
C7_ReconnectResubscribes ==
    (lpc = "listen" /\ l_from = "reconnected" /\ should_reconnect
        /\ DOMAIN subscriptions # {})
        => (websocket # 0 /\ DOMAIN subscriptions \subseteq Upstream(websocket))

\* ------------------------------------------------------------------ C8
\* C8: once the reconnect attempts are exhausted and the error has been
\* logged, the reader task does not go round its loop again.
C8_ReaderStopsWhenExhausted == errorsLogged >= 1 => idleSpins = 0

\* ------------------------------------------------------------------ C9
\* C9: when a reconnect attempt has failed while reconnecting is enabled and
\* fewer than max_reconnect_attempts attempts were made, the reader task is
\* still there to make the next attempt.
C9_FailedAttemptRetried ==
    (attemptFailed /\ should_reconnect /\ reconnect_count < max_reconnect_attempts)
        => lpc # "dead"

\* ------------------------------------------------------------------ C10
\* C10: once disconnect() has returned, reconnecting is disabled, no reader
\* task is receiving, dispatching, backing off or connecting, and no sink is
\* invoked any more; until the next call on the provider the registry is
\* empty and no listener task is held.
C10_ClosedIsFinal ==
    /\ everClosed => /\ ~should_reconnect
                     /\ lpc \notin {"recv", "dispatch", "backoff", "connecting", "sending"}
                     /\ ~deliveredAfterClose
    /\ closedNow => /\ subscriptions = EmptyMap
                    /\ listener_task = "none"
                    /\ websocket = 0

\* ticks were delivered, disconnect() returned, and a later subscribe opened
\* a connection whose listener task ended at once
C10_Witness ==
    /\ everClosed
    /\ lastDelivery # NoDelivery
    /\ DOMAIN subscriptions # {}
    /\ websocket \in conn_open
    /\ lpc = "done"

\* ------------------------------------------------------------------ C11
\* C11: a subscribe(ids, sink) call sends at most one subscribe frame, and
\* that frame lists exactly the listed tickers that had no registered sink
\* before the call (at once on the open connection, or on the connection the
\* call opens); when every listed ticker already had a sink nothing is sent,
\* and a call whose sink is already registered for every listed ticker
\* changes neither the registry nor the frames sent.
C11_SubscribeOnlyNew ==
    [][ /\ \A ids \in FanIdSets, sink \in Sinks :
              Subscribe(ids, sink) =>
                  LET ups == {Upper(i) : i \in ids}
                      known == {t \in DOMAIN subscriptions : subscriptions[t] # {}}
                      fresh == ups \ known
                  IN  /\ \A c \in ConnIds :
                            \/ frames'[c] = frames[c]
                            \/ /\ fresh # {}
                               /\ frames'[c] = Append(frames[c], SubscribeFrame(fresh))
                      /\ fresh = {} => (frames' = frames /\ cpc' = "idle")
                      /\ cpc' = "sub_connecting" => (c_tickers' = fresh /\ fresh # {})
                      /\ \A t \in ups : sink \in subscriptions'[t]
                      /\ (\A t \in ups : t \in DOMAIN subscriptions /\ sink \in subscriptions[t])
                            => (subscriptions' = subscriptions /\ frames' = frames)
        /\ SubscribeConnectOk =>
              /\ frames'[websocket'] = Append(frames[websocket'], SubscribeFrame(c_tickers))
              /\ \A c \in ConnIds \ {websocket'} : frames'[c] = frames[c]
      ]_vars

\* on one open connection a first call announced AAPL, a second call with
\* another sink for AAPL and MSFT announced MSFT alone, and a third call
\* sent nothing
C11_Witness ==
    /\ calls = 3
    /\ cpc = "idle"
    /\ websocket \in conn_open
    /\ frames[websocket] = <<SubscribeFrame({"AAPL"}), SubscribeFrame({"MSFT"})>>
    /\ DOMAIN subscriptions = {"AAPL", "MSFT"}
    /\ subscriptions["AAPL"] = Sinks
    /\ subscriptions["MSFT"] # {}

\* ------------------------------------------------------------------ C12
\* C12: unsubscribe(ids) deletes the registry entry (every sink) of each
\* listed ticker and leaves the entries of the other tickers as they were;
\* when a listed ticker was known and the provider is connected on an open
\* connection it sends one unsubscribe frame on that connection, listing
\* exactly the listed tickers that were known; otherwise it sends nothing.
C12_UnsubscribeFrames ==
    [][ \A ids \in FanIdSets :
            Unsubscribe(ids) =>
                LET ups == {Upper(i) : i \in ids}
                    known == ups \cap DOMAIN subscriptions
                IN  /\ DOMAIN subscriptions' = DOMAIN subscriptions \ ups
                    /\ \A t \in DOMAIN subscriptions' : subscriptions'[t] = subscriptions[t]
                    /\ IF known # {} /\ is_connected /\ websocket \in conn_open
                       THEN /\ frames'[websocket] =
                                  Append(frames[websocket], UnsubscribeFrame(known))
                            /\ \A c \in ConnIds \ {websocket} : frames'[c] = frames[c]
                       ELSE frames' = frames
      ]_vars

\* AAPL and MSFT were subscribed on an open connection and unsubscribe
\* of AAPL sent a frame for AAPL alone; MSFT keeps its sinks
C12_Witness ==
    /\ cpc = "idle"
    /\ websocket \in conn_open
    /\ frames[websocket] = <<SubscribeFrame({"AAPL", "MSFT"}), UnsubscribeFrame({"AAPL"})>>
    /\ DOMAIN subscriptions = {"MSFT"}
    /\ subscriptions["MSFT"] # {}

\* C12 as stated: every unsubscribe call that lists a known ticker emits an
\* unsubscribe frame for the known listed tickers.
C12_AlwaysEmits ==
    [][ \A ids \in FanIdSets :
            (Unsubscribe(ids) /\ {Upper(i) : i \in ids} \cap DOMAIN subscriptions # {})
                => \E c \in ConnIds :
                      frames'[c] = Append(frames[c],
                          UnsubscribeFrame({Upper(i) : i \in ids} \cap DOMAIN subscriptions))
      ]_vars

\* ------------------------------------------------------------------ C13
\* C13: when a sink raises while a tick is dispatched, every sink of the
\* snapshot taken for that tick has still been run with it, and the reader
\* task neither ends nor leaves its connection: it is back in the async for
\* on the same connection, the provider's connection state untouched.
C13_SinkErrorContained ==
    /\ [](lastDelivery.raised # {} => lastDelivery.delivered = lastDelivery.sinks)
    /\ [][ \A raised \in SUBSET Sinks :
              DispatchDone(raised) =>
                  /\ lpc' = "recv"
                  /\ l_conn' = l_conn
                  /\ <<websocket', is_connected', conn_open', reconnect_count'>>
                        = <<websocket, is_connected, conn_open, reconnect_count>>
                  /\ subscriptions' = subscriptions
          ]_vars

\* a tick went to two sinks of which one raised, and the reader is reading
\* the same open connection again
C13_Witness ==
    /\ Cardinality(lastDelivery.sinks) = 2
    /\ Cardinality(lastDelivery.raised) = 1
    /\ lastDelivery.delivered = lastDelivery.sinks
    /\ lpc = "recv"
    /\ l_conn = websocket
    /\ l_conn \in conn_open
    /\ lastDelivery.ticker \in Upstream(l_conn)

\* ------------------------------------------------------------------ C14
\* C14: the messages of one ticker reach a sink in the order in which the
\* source sent them, each at most once, whatever messages of other tickers
\* come in between.
C14_InOrder ==
    \A k \in Sinks :
        \A i, j \in DOMAIN sinkLog[k] :
            (i < j /\ sinkLog[k][i].ticker = sinkLog[k][j].ticker)
                => sinkLog[k][i].n < sinkLog[k][j].n

\* a sink got two AAPL messages with an MSFT message between them
C14_Witness ==
    \E k \in Sinks :
        /\ Len(sinkLog[k]) = 3
        /\ sinkLog[k][1].ticker = "AAPL"
        /\ sinkLog[k][2].ticker = "MSFT"
        /\ sinkLog[k][3].ticker = "AAPL"

\* ------------------------------------------------------------------ C15
\* the tick closes the candle under construction for its ticker
ClosesCandle(data) ==
    /\ Upper(data.id) \in DOMAIN building_candles
    /\ data.time - building_candles[Upper(data.id)].start_time >= CANDLE_TICKS

CandleWellFormed(c) ==
    /\ c.low <= c.open /\ c.low <= c.close
    /\ c.open <= c.high /\ c.close <= c.high
    /\ c.volume >= 0

\* C15: every candle on_tick closes and hands to on_candle has
\* low <= min(open, close) <= max(open, close) <= high and volume >= 0,
\* for ticks with non-negative prices and sizes.
C15_ClosedCandleWellFormed ==
    [][ \A data \in CandleTickSet :
            (OnTick(data) /\ ClosesCandle(data))
                => CandleWellFormed(FinalizeCandle(building_candles[Upper(data.id)]))
      ]_vars

\* a candle of three ticks whose low lies under its open and its close was
\* closed and is being traded
C15_Witness ==
    /\ tpc = "placing"
    /\ LET c == FinalizeCandle(building_candles[inflight.ticker])
       IN  /\ c.low < c.open
           /\ c.low < c.close
           /\ c.volume >= 1

\* ------------------------------------------------------------------ C16
\* x is n / d rounded to the nearest integer (ties either way)
IsRounded(x, n, d) == 2 * (x * d - n) <= d /\ 2 * (n - x * d) <= d

\* C16: the order on_candle sends, after warm-up and for a ticker without an
\* order yet, has entry = low * 0.99, stop = entry * 0.96 and
\* take = entry * 1.08, each rounded to the cent, and quantity the floor of
\* the allocation per ticker over the entry; for low 100.00 and 1000.00 per
\* ticker that is 99.00, 95.04, 106.92 and 10; no order is sent for a ticker
\* that has one.
C16_OrderNumbers ==
    [][ (tpc = "idle" /\ tpc' = "placing") =>
          LET ticker == inflight'.ticker
              low == FinalizeCandle(building_candles[ticker]).low
              entry == inflight'.limit_price
              qty == inflight'.quantity
          IN  /\ warmup_complete'
              /\ ticker \notin orders_placed
              /\ sessionOrders[ticker] = 0
              /\ IsRounded(entry, low * 99, 100)
              /\ IsRounded(inflight'.stop_loss_price, entry * 96, 100)
              /\ IsRounded(inflight'.take_profit_price, entry * 108, 100)
              /\ qty * entry * bp_per_ticker.den <= bp_per_ticker.num
              /\ bp_per_ticker.num < (qty + 1) * entry * bp_per_ticker.den
              /\ (low = 10000 /\ bp_per_ticker.num = 100000 * bp_per_ticker.den)
                    => /\ entry = 9900
                       /\ inflight'.stop_loss_price = 9504
                       /\ inflight'.take_profit_price = 10692
                       /\ qty = 10
      ]_vars

\* the order for a candle with low 100.00 and 1000.00 per ticker is with
\* the broker
C16_Witness ==
    /\ tpc = "placing"
    /\ FinalizeCandle(building_candles[inflight.ticker]).low = 10000
    /\ bp_per_ticker = [num |-> 100000, den |-> 1]
    /\ inflight.limit_price = 9900
    /\ inflight.quantity = 10

\* ------------------------------------------------------------------ C17
\* C17: when a candle is closed after warm-up for a ticker without an order
\* and the allocation per ticker is less than one entry price, no order is
\* sent and the ticker stays untagged; when the allocation covers at least
\* one share the order is sent, whether or not earlier candles of the
\* ticker were refused.
C17_NoOrderBelowMinimum ==
    [][ \A data \in CandleTickSet :
            (/\ OnTick(data)
             /\ ClosesCandle(data)
             /\ IsWarmupComplete
             /\ Upper(data.id) \notin orders_placed)
            => LET entry == EntryPrice(FinalizeCandle(building_candles[Upper(data.id)]).low)
               IN  IF entry <= 0 \/ bp_per_ticker.num < entry * bp_per_ticker.den
                   THEN /\ tpc' = "idle"
                        /\ lastOutcome' = "quantity"
                        /\ orders_placed' = orders_placed
                        /\ sessionOrders' = sessionOrders
                   ELSE /\ tpc' = "placing"
                        /\ inflight'.ticker = Upper(data.id)
                        /\ inflight'.quantity >= 1
      ]_vars

\* a candle with low 100.00 was refused at 50.00 per ticker; the ticker is
\* untagged, the allocation is now 150.00 and the next candle is building
C17_Witness ==
    /\ lastOutcome = "quantity"
    /\ tpc = "idle"
    /\ "AAPL" \notin orders_placed
    /\ bp_per_ticker = [num |-> 15000, den |-> 1]
    /\ "AAPL" \in DOMAIN building_candles
    /\ building_candles["AAPL"].low = 10000
    /\ ticksSeen < tickCap

\* ------------------------------------------------------------------ C18
\* C18: once the watch list of a session is loaded, the allocation per
\* ticker stays what it was then until shutdown ends the session, whatever
\* initialize calls the runner makes in between (retries, restarts).
C18_AllocationFrozen ==
    [][tickers # {} => bp_per_ticker' = bp_per_ticker]_vars

\* ------------------------------------------------------------------ C19
\* C19: when shutdown() returns, no watch-list ticker of the strategy is in
\* the provider's registry with the strategy's sink, no candle is under
\* construction, no ticker is tagged as ordered, and is_initialized is
\* false.
C19_ShutdownCleans ==
    [][ StratShutdown("ok") =>
          /\ \A t \in tickers :
                t \notin DOMAIN subscriptions' \/ StratSink \notin subscriptions'[t]
          /\ building_candles' = EmptyMap
          /\ orders_placed' = {}
          /\ ~is_initialized'
      ]_vars

\* ------------------------------------------------------------------ C20
\* C20: when a stop_all call returns, shutdown() has been called on every
\* strategy that was in the active list when the call began, whether or not
\* a shutdown raised, and the active list is empty.
C20_StopAllShutsActive ==
    [][ /\ (mpc = "stop_next" /\ mpc' = "sweep")
              => (active' = <<>> /\ \A s \in m_called : g_down'[s])
        /\ (spc = "s_next" /\ spc' = "s_done")
              => (active' = <<>> /\ \A s \in s_called : g_down'[s])
      ]_vars

\* C21: with the cache enabled, a save_tickers(x, d) of a non-empty list that
\* returns is followed by load_tickers(d) = x, and around a save over an entry
\* that held a list a reader gets the old list or the whole new list, never
\* anything else.
C21_SaveThenLoad ==
    (cacheEvent.op = "save" /\ cacheEvent.arg # <<>> /\ cache_enabled) =>
        LET after == LoadTickers(files, cache_enabled, cacheEvent.date)
        IN  /\ cacheEvent.result = NoneResult => after = ListResult(cacheEvent.arg)
            /\ cacheEvent.before.kind = "list" =>
                  after \in {cacheEvent.before, ListResult(cacheEvent.arg)}

\* C22: load_tickers(d) never raises; it returns None when the entry is
\* absent, the cache is off or the stored text is malformed, and a list
\* exactly when the entry is present and well-formed.
C22_LoadNeverRaises ==
    cacheEvent.op = "load" =>
        LET stem == IsoFormat(cacheEvent.date)
            wellFormed == /\ cache_enabled
                          /\ stem \in DOMAIN files
                          /\ JsonLoads(files[stem]).kind = "list"
        IN  /\ cacheEvent.result.kind \in {"none", "list"}
            /\ cacheEvent.result.kind = "list" <=> wellFormed

\* C23: a clear_old_cache() that returns removes exactly the files whose stem
\* parses to a date before today: a file dated today or later is kept with
\* its text, a file whose stem does not parse is kept, and afterwards every
\* file with a parseable stem is dated today or later.
C23_SweepKeepsToday ==
    [][ (cacheEvent'.op = "sweep" /\ cacheEvent'.result = NoneResult) =>
           /\ DOMAIN files' \subseteq DOMAIN files
           /\ \A s \in DOMAIN files :
                 LET file_date == FromIsoFormat(s)
                 IN  IF file_date # ValueError /\ file_date < c_today
                     THEN s \notin DOMAIN files'
                     ELSE s \in DOMAIN files' /\ files'[s] = files[s]
           /\ \A s \in DOMAIN files' :
                 FromIsoFormat(s) = ValueError \/ FromIsoFormat(s) >= c_today ]_vars

\* a sweep returned after removing a stale file, with today's file and the
\* file of another kind still in place
C23_Witness ==
    /\ cacheEvent.op = "sweep"
    /\ cacheEvent.result = NoneResult
    /\ cacheEvent.arg # <<>>
    /\ IsoFormat(c_today) \in DOMAIN files
    /\ ForeignStem \in DOMAIN files

\* C24: when the cache holds a non-empty list for today, selecting the watch
\* list (by main() or by the strategy's load_tickers()) returns that list and
\* runs the scanner not at all.
C24_CacheHitSkipsScan ==
    (/\ cacheEvent.op \in {"main", "load_tickers"}
     /\ cacheEvent.before.kind = "list"
     /\ cacheEvent.before.items # <<>>) =>
        /\ cacheEvent.scans = 0
        /\ cacheEvent.result = cacheEvent.before

\* the example of the consensus test
GrokExample == {"AAPL", "MSFT", "GOOGL", "TSLA"}
GeminiExample == {"AAPL", "MSFT", "NVDA", "AMZN"}
\* the place of a symbol in the lexicographic order
Rank(sym) == CHOOSE i \in DOMAIN SymbolOrder : SymbolOrder[i] = sym
IsSortedList(l) == \A i, j \in DOMAIN l : i < j => Rank(l[i]) < Rank(l[j])

\* C25 (as stated): the list a scan returns is the intersection of the two
\* advisors' sets in lexicographic order.
C25_ScanReturnsSorted ==
    scanEvent.op = "scan" =>
        /\ \A sym \in ScanSymbols :
              sym \in RangeOf(scanEvent.returned) <=>
                 (sym \in scanEvent.grok /\ sym \in scanEvent.gemini)
        /\ IsSortedList(scanEvent.returned)

\* C25 (amended): the list a scan returns holds exactly the symbols both
\* advisors suggested, each once, in no particular order; the watch list the
\* strategy builds from one pass is that set in lexicographic order, and for
\* the example sets it is [AAPL, MSFT].
C25_ConsensusIsIntersection ==
    scanEvent.op = "scan" =>
        /\ \A sym \in ScanSymbols :
              sym \in RangeOf(scanEvent.returned) <=>
                 (sym \in scanEvent.grok /\ sym \in scanEvent.gemini)
        /\ \A i, j \in DOMAIN scanEvent.returned :
              i # j => scanEvent.returned[i] # scanEvent.returned[j]
        /\ RangeOf(scanEvent.watch) = RangeOf(scanEvent.returned)
        /\ IsSortedList(scanEvent.watch)
        /\ (scanEvent.grok = GrokExample /\ scanEvent.gemini = GeminiExample) =>
              scanEvent.watch = <<"AAPL", "MSFT">>

\* the example scanned, with the consensus returned in the other order
C25_Witness ==
    /\ scanEvent.op = "scan"
    /\ scanEvent.grok = GrokExample
    /\ scanEvent.gemini = GeminiExample
    /\ scanEvent.returned = <<"MSFT", "AAPL">>
    /\ scanEvent.watch = <<"AAPL", "MSFT">>

\* the words of a response that stand alone: on a line of their own or
\* between commas
StandAlone(response) ==
    {response[i] : i \in {j \in DOMAIN response :
        /\ response[j] \in Words
        /\ j = 1 \/ response[j - 1] \in {",", "\n"}
        /\ j = Len(response) \/ response[j + 1] \in {",", "\n"}}}
HasJson(response) == \E i \in DOMAIN response : response[i] \in JsonObjects \cup {"["}
HasFence(response) == \E i \in DOMAIN response : response[i] = Fence

\* C26 (as stated): both extractors return symbols of the upper-cased
\* universe only, and every symbol of the universe that stands alone in the
\* response is returned, whichever strategy the extractor takes.
C26_StandAloneAlwaysReturned ==
    scanEvent.op = "extract" =>
        LET valid == {Upper(t) : t \in scanEvent.universe}
        IN  /\ scanEvent.scanner \subseteq valid
            /\ scanEvent.helper \subseteq valid
            /\ StandAlone(scanEvent.response) \cap valid \subseteq scanEvent.scanner
            /\ StandAlone(scanEvent.response) \cap valid \subseteq scanEvent.helper

\* C26 (amended): both extractors return symbols of the upper-cased universe
\* only; the scanner's extractor returns every symbol of the universe that
\* stands alone in the response, and the helper does so when the response
\* holds neither a code fence nor JSON (otherwise it returns what the JSON
\* strategy found, or what the pattern finds inside the first fence).
C26_ExtractedFromUniverse ==
    scanEvent.op = "extract" =>
        LET valid == {Upper(t) : t \in scanEvent.universe}
        IN  /\ scanEvent.scanner \subseteq valid
            /\ scanEvent.helper \subseteq valid
            /\ StandAlone(scanEvent.response) \cap valid \subseteq scanEvent.scanner
            /\ (~HasJson(scanEvent.response) /\ ~HasFence(scanEvent.response)) =>
                  StandAlone(scanEvent.response) \cap valid \subseteq scanEvent.helper

\* a comma-separated response with a symbol of the lower-case universe and
\* a word outside it
C26_Witness ==
    /\ scanEvent.op = "extract"
    /\ scanEvent.universe = {"aapl"}
    /\ scanEvent.response = <<"AAPL", ",", "ZZZ">>
    /\ scanEvent.scanner = {"AAPL"}
    /\ scanEvent.helper = {"AAPL"}

\* C27: a stop() that arrives while _wait_until sleeps ends the wait within
\* one 1-second tick: the sleep in progress returns at most ShortSleep after
\* the request instead of running to the end of its slice.
C27_StopEndsWaitWithinTick ==
    [][ (mpc = "wait_sleep" /\ should_stop /\ mpc' = "wait") =>
           now' <= now + ShortSleep ]_vars

\* C28: with no stop requested, start_all is entered never before the
\* pre-market open and as soon as the clock has reached it: no sleep of the
\* wait begins at or after the open or ends after it, a sleep that begins
\* within LongSleep of the open lasts at most ShortSleep, and the step from
\* the wait into start_all takes no time.
C28_StartAtPreOpen ==
    [][ /\ (mpc = "after_wait" /\ mpc' = "start_next") =>
              (now >= pre_market /\ now' = now)
        /\ (mpc = "wait" /\ mpc' = "wait_sleep") =>
              /\ now < pre_market
              /\ wake_at' > now
              /\ wake_at' <= pre_market
              /\ pre_market - now <= LongSleep => wake_at' <= now + ShortSleep
        /\ (mpc = "wait" /\ ~should_stop /\ now >= pre_market /\ mpc' # "wait") =>
              mpc' = "after_wait"
        /\ (mpc = "wait_sleep" /\ ~should_stop /\ mpc' = "wait") => now' = wake_at ]_vars

\* start_all is entered exactly at the pre-market open after a wait that
\* began more than a long slice before it
C28_Witness ==
    /\ mpc = "start_next"
    /\ lastEvent = "start_all"
    /\ ~should_stop
    /\ now = pre_market
    /\ wake_at = pre_market
    /\ pre_market > LongSleep

\* C29: whenever the provider is connected, no subscribe or unsubscribe call
\* is in progress and the reader waits for the next message of an open
\* connection, that connection is the provider's websocket and the only open
\* one, and the tickers subscribed on it are the tickers of the registry.
C29_UpstreamIsRegistry ==
    (is_connected /\ cpc = "idle" /\ lpc = "recv" /\ l_conn \in conn_open) =>
        /\ websocket = l_conn
        /\ Cardinality(conn_open) <= 1
        /\ Upstream(l_conn) = DOMAIN subscriptions

\* C30: once the main loop of start() has exited after stop() and the stop()
\* call has returned, the active list is empty and shutdown() has been called
\* on every strategy whose initialize() succeeded and that has not failed on
\* its own since: no strategy is still initialized without a shutdown() call
\* in the session.
C30_AllShutDownAfterExit ==
    (mpc = "terminal" /\ spc = "s_done") =>
        /\ active = <<>>
        /\ \A s \in Strategies : strat_initialized[s] => g_down[s]

\* C31: per ticker the first tick seeds the builder; a later tick with
\* time - start_time >= CANDLE_TICKS hands the accumulated state to on_candle
\* and, once that on_tick call is over, the state is a fresh one seeded from
\* that tick; any other tick updates high, low, close and volume of the
\* state and hands nothing over.
C31_BuilderSteps ==
    [][ /\ \A data \in CandleTickSet :
              OnTick(data) =>
                LET ticker == Upper(data.id) IN
                IF ticker \notin DOMAIN building_candles
                THEN /\ building_candles'[ticker] = CreateCandleState(data)
                     /\ tpc' = "idle"
                ELSE IF ClosesCandle(data)
                THEN tpc' = "idle"
                        => building_candles'[ticker] = CreateCandleState(data)
                ELSE /\ building_candles'[ticker] =
                            UpdateCandleState(building_candles[ticker], data)
                     /\ tpc' = "idle"
        /\ (tpc = "placing" /\ tpc' = "idle")
              => building_candles'[inflight.ticker] = CreateCandleState(inflight.data)
      ]_vars

\* C32: each pass of the day loop serves a trading day of its own: when
\* _run_trading_day picks its session the after-hours close of that session
\* is still ahead, and start_all is never entered at or after the
\* after-hours close of the session it serves (so a session is started at
\* most once).
C32_OneDayPerIteration ==
    [][ /\ (mpc = "loop" /\ mpc' = "wait") => now < after_hours'
        /\ (mpc = "after_wait" /\ mpc' = "start_next") => now < after_hours
      ]_vars

\* C33: in every session, an order is sent to the broker (and its ticker
\* tagged afterwards) only for a candle handled when the wall clock of the
\* running session is at or past MARKET_WARMUP_TIME; a candle handled before
\* it leads to no order.
C33_NoOrderBeforeWarmup ==
    [][ (tpc = "idle" /\ tpc' = "placing") => clockWarm ]_vars

\* C34: every order sent to the broker has stop_loss < entry < take_profit
\* and a quantity of at least one share equal to the floor of the allocation
\* per ticker over the entry, for every closed candle with a positive low,
\* lows of a few cents included.
C34_BracketOrdered ==
    [][ (tpc = "idle" /\ tpc' = "placing") =>
          LET entry == inflight'.limit_price
              qty == inflight'.quantity
          IN  /\ inflight'.stop_loss_price < entry
              /\ entry < inflight'.take_profit_price
              /\ qty >= 1
              /\ qty * entry * bp_per_ticker.den <= bp_per_ticker.num
              /\ bp_per_ticker.num < (qty + 1) * entry * bp_per_ticker.den
      ]_vars

\* the union over the passes of one advisor's sets
RECURSIVE AdvisorUnion(_, _)
AdvisorUnion(answers, advisor) ==
    IF answers = <<>> THEN {}
    ELSE Head(answers)[advisor].tickers \cup AdvisorUnion(Tail(answers), advisor)

\* C35: with P scan passes the watch list load_tickers returns is the
\* intersection over the advisors of the union of the advisor's P per-pass
\* sets, whatever the advisors answer in each pass.
C35_UnionThenIntersection ==
    scanEvent.op = "passes_done" =>
        RangeOf(scanEvent.watch) =
            AdvisorUnion(scanEvent.answers, "grok")
                \cap AdvisorUnion(scanEvent.answers, "gemini")

\* C36: when in a pass one advisor's call fails and the other advisor's
\* succeeds, the failed advisor's set counts as empty for the pass and
\* load_tickers (and with it initialize) does not fail.
C36_AdvisorFailureContained ==
    (\A i \in DOMAIN scanEvent.answers :
        scanEvent.answers[i].grok.ok \/ scanEvent.answers[i].gemini.ok)
      => scanEvent.op # "passes_raised"

\* C37: the sinks of a tick are called outside the registry lock, on the
\* snapshot of the ticker's sink set taken when the dispatch began: while
\* the sinks run a subscribe or unsubscribe call (made by a sink or by
\* anyone else) can take the lock and go on, it changes the registry but not
\* the snapshot, and the tick is delivered to the sinks of the snapshot.
C37_SnapshotDispatch ==
    /\ [](\A ids \in FanIdSets :
            (lpc = "dispatch" /\ cpc = "idle" /\ calls < MaxCalls)
                => /\ ENABLED Unsubscribe(ids)
                   /\ \A sink \in Sinks : ENABLED Subscribe(ids, sink))
    /\ [][ /\ (lpc # "dispatch" /\ lpc' = "dispatch")
                => lastDelivery'.sinks = subscriptions[lastDelivery'.ticker]
           /\ (lpc = "dispatch" /\ lpc' = "dispatch")
                => lastDelivery' = lastDelivery
           /\ (lpc = "dispatch" /\ lpc' = "recv")
                => lastDelivery'.delivered = lastDelivery.sinks
         ]_vars

\* the sinks of a tick are running, and since the snapshot was taken a call
\* has returned that changed the ticker's entry in the registry
C37_Witness ==
    /\ lpc = "dispatch"
    /\ cpc = "idle"
    /\ calls >= 2
    /\ \/ lastDelivery.ticker \notin DOMAIN subscriptions
       \/ subscriptions[lastDelivery.ticker] # lastDelivery.sinks

\* the tasks that are inside on_candle for ticker t
InCandle(t) == {i \in TaskIds : readers.task[i].pc = "on_candle" /\ readers.task[i].ticker = t}

\* C38: within the strategy at most one on_candle call for a ticker is in
\* progress at any time: a second one starts only after the one before it,
\* broker call included, has returned, through ticks, reconnects, restarts
\* of the strategy and disconnects.
C38_OneCandleCallPerTicker ==
    \A t \in Symbols : Cardinality(InCandle(t)) <= 1

\* a second reader task, made after the first one ended, is inside the
\* second on_candle call for AAPL
C38_Witness ==
    /\ readers.candles = 2
    /\ readers.task[1].pc = "done"
    /\ InCandle("AAPL") = {2}

\* C39: a payload whose market-hours integer is none of the enumeration's
\* values decodes to a tick with REGULAR_MARKET: decode does not raise, and
\* the reader keeps its connection and goes on reading.
C39_UnknownPhaseIsRegular ==
    (/\ decoded.op = "handled"
     /\ decoded.payload.phase.wire = "varint"
     /\ decoded.payload.phase.value \notin MarketHoursValues)
        => /\ ~decoded.tick.raises
           /\ decoded.tick.market_hours = REGULAR_MARKET
           /\ decoded.is_connected
           /\ decoded.reader = "recv"


\* C40: a clear_old_cache() in which removing one stale file fails still
\* completes, and removes every other file dated before today: afterwards at
\* most the file whose removal failed is left among the stale ones.
C40_SweepContinues ==
    [][ cacheEvent'.op = "sweep" =>
           /\ cacheEvent'.result = NoneResult
           /\ Cardinality(StaleStems(files', c_today')) <= 1
           /\ \A s \in StaleStems(files, c_today) \ StaleStems(files', c_today') :
                 s \notin DOMAIN files' ]_vars

====
